---- MODULE Spec2Model ----
(***************************************************************************)
(* Device/queue negotiation and resource lifecycle of the Vulkan backend.  *)
(*                                                                         *)
(*   Spec       Base::new, ContextConfigurator::new, Context::new and the  *)
(*              drops of Base and Context, with the log of native calls.   *)
(*   SpecQueue  QueueSelections::new / insert_operation.                   *)
(***************************************************************************)
EXTENDS Integers, Sequences, FiniteSets, TLC

VARIABLES
    pc,                     \* position of the program
    calls,                  \* native calls made so far, in order
    validation_layers,      \* BaseConfig::validation_layers (requested layers)
    validation_properties,  \* layers reported by enumerate_instance_layer_properties
    layer_result,           \* result of validate_layer_availability
    raw_window_handle,      \* ContextConfigurator::raw_window_handle
    raw_display_handle,     \* ContextConfigurator::raw_display_handle
    physical_devices,       \* candidates kept by obtain_physical_devices
    queue_selections,       \* QueueSelections built by obtain_queues in Context::new
    queue_create_infos,     \* queue-create-info list handed to create_device
    context_queues,         \* Context::{graphics,compute,transfer,present}_queue
    queried_device,         \* the device obtain_queues was called with (0: none)
    logical_device,         \* the device the logical device was created on (0: none)
    families,               \* QueueSelections::families
    operations,             \* QueueSelections::operations
    insert_result,          \* result of the last call when it was insert_operation
    last_call,              \* arguments of the last call when it was insert_operation
    creation_info,          \* result of the last call when it was to_vk_creation_info
    device_extensions,      \* ContextConfigurator::device_extensions (required)
    checked_devices,        \* devices reported by enumerate_physical_devices
    extension_checks,       \* result of validate_physical_device_extensions per device
    devices,                \* result of obtain_physical_devices
    application_name,       \* name passed to BaseConfigBuilder::build
    version_str,            \* version string passed to BaseConfigBuilder::build
    config_result,          \* outcome of to_c_str / to_version / build
    message_severity,       \* severity flags of the last debug_callback call
    message_type,           \* type flags of the last debug_callback call
    log_records,            \* records handed to the log macros, in order
    callback_return,        \* values debug_callback returned, in order
    builder,                \* the BaseConfigBuilder (as it was when build consumed it)
    base_config,            \* outcome of BaseConfigBuilder::build
    instance_info,          \* layer and extension lists of the InstanceCreateInfo of Base::new
    vk_pc,                  \* position of the renderer of main.rs
    device_queue_families,  \* queue families the selected physical device reports
    queue_family_indices,   \* Vulkan::queue_family_indices
    queue,                  \* Vulkan::queue: the family and index it was fetched at
    image_count,            \* number of swapchain images (image views, framebuffers)
    frame_calls,            \* native calls of the current draw_frame, in order
    drop_calls,             \* native calls of Drop for Vulkan, in order
    fence_signalled,        \* state of Vulkan::fence
    gpu_pending,            \* a submission of command_buffers[0] has not completed
    frames,                 \* frames presented so far
    once_state,             \* state of the Once INIT of log.rs
    logger,                 \* the logger installed in the log crate
    max_level,              \* the maximum level set in the log crate
    thread_pc,              \* position of each thread with respect to Logger::init
    thread_level,           \* logging_level of each thread's current Logger::init call
    installs,               \* number of successful log::set_logger calls
    init_level,             \* logging_level of the call whose closure ran
    init_calls              \* number of Logger::init calls made so far

vars == <<pc, calls, validation_layers, validation_properties, layer_result,
          raw_window_handle, raw_display_handle, physical_devices,
          queue_selections, queue_create_infos, context_queues,
          queried_device, logical_device,
          families, operations, insert_result, last_call, creation_info,
          device_extensions, checked_devices, extension_checks, devices,
          application_name, version_str, config_result,
          message_severity, message_type, log_records, callback_return,
          builder, base_config, instance_info,
          vk_pc, device_queue_families, queue_family_indices, queue, image_count,
          frame_calls, drop_calls, fence_signalled, gpu_pending, frames,
          once_state, logger, max_level, thread_pc, thread_level, installs,
          init_level, init_calls>>

ctxVars == <<queue_selections, queue_create_infos, context_queues,
             queried_device, logical_device>>

lifeVars == <<pc, calls, validation_layers, validation_properties, layer_result,
              raw_window_handle, raw_display_handle, physical_devices, ctxVars>>

queueVars == <<families, operations, insert_result, last_call, creation_info>>

devVars == <<device_extensions, checked_devices, extension_checks, devices>>

cfgVars == <<application_name, version_str, config_result>>

callbackVars == <<message_severity, message_type, log_records, callback_return>>

builderVars == <<builder, base_config, instance_info>>

rendererVars == <<vk_pc, device_queue_families, queue_family_indices, queue, image_count,
                  frame_calls, drop_calls, fence_signalled, gpu_pending, frames>>

loggerVars == <<once_state, logger, max_level, thread_pc, thread_level, installs,
                init_level, init_calls>>

\* The variables of the parts added after the first four.
extraVars == <<callbackVars, builderVars, rendererVars, loggerVars>>

restOfLife == <<queueVars, devVars, cfgVars, extraVars>>

restOfQueue == <<lifeVars, devVars, cfgVars, extraVars>>

restOfDev == <<lifeVars, queueVars, cfgVars, extraVars>>

restOfCfg == <<lifeVars, queueVars, devVars, extraVars>>

restOfCallback == <<lifeVars, queueVars, devVars, cfgVars, builderVars, rendererVars, loggerVars>>

restOfBuilder == <<lifeVars, queueVars, devVars, cfgVars, callbackVars, rendererVars, loggerVars>>

restOfRenderer == <<lifeVars, queueVars, devVars, cfgVars, callbackVars, builderVars, loggerVars>>

restOfLogger == <<lifeVars, queueVars, devVars, cfgVars, callbackVars, builderVars, rendererVars>>

(***************************************************************************)
(* Bounds                                                                  *)
(***************************************************************************)
MaxRequested == 3
MaxReported == 2
MaxDevices == 2
MaxFamilies == 3
MaxCtxFamilies == 2
MaxRequiredExt == 2
MaxDeviceExt == 2
MaxEnumerated == 2
MaxComponents == 3
MaxMessages == 2
MaxSupplied == 2
MaxQueueFamilies == 2
MaxImages == 2
MaxFrames == 2
MaxThreads == 2
MaxInitCalls == 3

(***************************************************************************)
(* Helpers                                                                 *)
(***************************************************************************)
Range(s) == {s[i] : i \in 1..Len(s)}

SeqsUpTo(S, n) == UNION {[1..k -> S] : k \in 0..n}

None == [some |-> FALSE]

\* Number of occurrences of call c in the log.
Count(c) == Cardinality({i \in 1..Len(calls) : calls[i] = c})

\* Position of the first occurrence of call c in the log (0 when absent).
Pos(c) == IF c \in Range(calls)
          THEN CHOOSE i \in 1..Len(calls) : calls[i] = c /\ \A j \in 1..(i - 1) : calls[j] # c
          ELSE 0

(***************************************************************************)
(* op_indices and the default priority (queue.rs)                          *)
(***************************************************************************)
GRAPHICS == 0
COMPUTE == 1
TRANSFER == 2
PRESENT == 3
COUNT == 4

DefaultPriority == 1

(***************************************************************************)
(* Inputs                                                                  *)
(***************************************************************************)
RequestedNames == {"VK_LAYER_KHRONOS_validation", "VK_LAYER_KHRONOS_synchronization2", "FAIL_LAYER"}

DriverNames == {"VK_LAYER_KHRONOS_validation", "VK_LAYER_KHRONOS_synchronization2", "VK_LAYER_LUNARG_api_dump"}

WindowKinds == {"Win32", "Wayland", "Xcb", "Xlib", "Other"}

\* A raw handle: its variant and whether its optional field is present
\* (Win32 hinstance, Xcb connection, Xlib display).
Handles == [kind : WindowKinds, field : BOOLEAN]

NoHandle == [kind |-> "none", field |-> FALSE]

\* Outcome of a fatal_unwrap_e!/fatal_unwrap!/fatal_assert! failure: the
\* process terminates, nothing else runs.
FatalOutcome == "fatal"

(***************************************************************************)
(* BaseConfig::validate_layer_availability                                 *)
(***************************************************************************)
Ok == [kind |-> "ok", index |-> 0]

ValidationLayerNotSupported(offset) == [kind |-> "err", index |-> offset]

NoResult == [kind |-> "none", index |-> 0]

\* Variant: no early return when the driver reports no layer.
validate_layer_availability_NoEmptyShortcut(requested, reported) ==
    LET layer_list == Range(requested) \ Range(reported)
    IN  IF layer_list # {}
        THEN ValidationLayerNotSupported(Len(requested) - Cardinality(layer_list))
        ELSE Ok

\* Variant: the requested names are kept in a list instead of a HashSet, and
\* each reported name removes at most one entry.
validate_layer_availability_NoDedup(requested, reported) ==
    IF Len(reported) = 0
    THEN Ok
    ELSE LET found == Cardinality(Range(requested) \cap Range(reported))
         IN  IF Len(requested) > found
             THEN ValidationLayerNotSupported(found)
             ELSE Ok

validate_layer_availability(requested, reported) ==
    IF Len(reported) = 0
    THEN Ok
    ELSE LET layer_list == Range(requested) \ Range(reported)
         IN  IF layer_list # {}
             THEN ValidationLayerNotSupported(Len(requested) - Cardinality(layer_list))
             ELSE Ok

(***************************************************************************)
(* Base::new                                                               *)
(***************************************************************************)
Fatal ==
    /\ pc' = FatalOutcome
    /\ validation_layers' = <<>>
    /\ validation_properties' = <<>>
    /\ raw_window_handle' = NoHandle
    /\ raw_display_handle' = NoHandle
    /\ physical_devices' = <<>>

BaseNew_LoadEntry ==
    /\ pc = "start"
    /\ \E ok \in BOOLEAN :
        IF ok
        THEN /\ pc' = "entry_loaded"
             /\ UNCHANGED <<validation_layers, validation_properties, raw_window_handle,
                            raw_display_handle, physical_devices>>
        ELSE Fatal
    /\ UNCHANGED <<calls, layer_result>>
    /\ UNCHANGED ctxVars
    /\ UNCHANGED restOfLife

BaseNew_Validate ==
    /\ pc = "entry_loaded"
    /\ calls' = Append(calls, "enumerate_instance_layer_properties")
    /\ \E ok \in BOOLEAN :
        IF ok
        THEN \E reported \in SeqsUpTo(DriverNames, MaxReported) :
                /\ validation_properties' = reported
                /\ layer_result' = validate_layer_availability(validation_layers, reported)
                /\ pc' = "validated"
                /\ UNCHANGED <<validation_layers, raw_window_handle, raw_display_handle,
                               physical_devices>>
        ELSE /\ Fatal
             /\ UNCHANGED layer_result
    /\ UNCHANGED ctxVars
    /\ UNCHANGED restOfLife

\* Variant: the result of the validation is ignored.
LayersAccepted_Always == TRUE

\* config.validate_layer_availability(&ash_instance)? lets Base::new continue.
LayersAccepted == layer_result.kind = "ok"

BaseNew_ReturnErr ==
    /\ pc = "validated"
    /\ ~LayersAccepted
    /\ pc' = "base_err"
    /\ validation_layers' = <<>>
    /\ validation_properties' = <<>>
    /\ UNCHANGED <<calls, layer_result, raw_window_handle, raw_display_handle, physical_devices>>
    /\ UNCHANGED ctxVars
    /\ UNCHANGED restOfLife

BaseNew_CreateInstance ==
    /\ pc = "validated"
    /\ LayersAccepted
    /\ \E ok \in BOOLEAN :
        IF ok
        THEN /\ calls' = Append(calls, "create_instance")
             /\ pc' = "instance_created"
             /\ UNCHANGED <<validation_layers, validation_properties, raw_window_handle,
                            raw_display_handle, physical_devices>>
        ELSE /\ Fatal
             /\ calls' = Append(calls, "create_instance_failed")
    /\ UNCHANGED layer_result
    /\ UNCHANGED ctxVars
    /\ UNCHANGED restOfLife

BaseNew_CreateMessenger ==
    /\ pc = "instance_created"
    /\ \E ok \in BOOLEAN :
        IF ok
        THEN /\ calls' = Append(calls, "create_debug_utils_messenger")
             /\ pc' = "base_ready"
             /\ validation_layers' = <<>>
             /\ validation_properties' = <<>>
             /\ UNCHANGED <<raw_window_handle, raw_display_handle, physical_devices>>
        ELSE /\ Fatal
             /\ calls' = Append(calls, "create_debug_utils_messenger_failed")
    /\ UNCHANGED layer_result
    /\ UNCHANGED ctxVars
    /\ UNCHANGED restOfLife

(***************************************************************************)
(* Drop for Base                                                           *)
(***************************************************************************)
\* Variant: the instance is destroyed before the messenger.
BaseDropCalls_InstanceFirst == <<"destroy_instance", "destroy_debug_utils_messenger">>

BaseDropCalls == <<"destroy_debug_utils_messenger", "destroy_instance">>

DropBase ==
    /\ pc = "base_ready"
    /\ calls' = calls \o BaseDropCalls
    /\ pc' = "base_dropped"
    /\ UNCHANGED <<validation_layers, validation_properties, layer_result,
                   raw_window_handle, raw_display_handle, physical_devices>>
    /\ UNCHANGED ctxVars
    /\ UNCHANGED restOfLife

(***************************************************************************)
(* ContextConfigurator::new                                                *)
(***************************************************************************)
ContextConfiguratorNew ==
    /\ pc = "base_ready"
    /\ \E window \in Handles, display \in Handles :
        /\ raw_window_handle' = window
        /\ raw_display_handle' = display
    /\ pc' = "configured"
    /\ UNCHANGED <<calls, validation_layers, validation_properties, layer_result, physical_devices>>
    /\ UNCHANGED ctxVars
    /\ UNCHANGED restOfLife

(***************************************************************************)
(* ContextConfigurator::create_surface                                     *)
(***************************************************************************)
\* "ok": the platform entry point was called and returned a surface;
\* "native_error": it was called and failed; "mismatch": fatal before any
\* entry point is called; "panic": Option::unwrap on a missing hinstance.
create_surface(window, display, native_ok) ==
    LET native == IF native_ok THEN "ok" ELSE "native_error"
    IN  CASE window.kind = "Win32" ->
                IF window.field THEN native ELSE "panic"
          [] window.kind = "Wayland" ->
                IF display.kind = "Wayland" THEN native ELSE "mismatch"
          [] window.kind = "Xcb" ->
                IF display.kind = "Xcb" /\ display.field THEN native ELSE "mismatch"
          [] window.kind = "Xlib" ->
                IF display.kind = "Xlib" /\ display.field THEN native ELSE "mismatch"
          [] OTHER -> "mismatch"

(***************************************************************************)
(* Context::new                                                            *)
(***************************************************************************)
\* A panic inside Context::new unwinds: the locals hold no destructor, the
\* parameter base is dropped (Drop for Base).
Unwind(log) ==
    /\ calls' = log \o BaseDropCalls
    /\ pc' = "panicked"
    /\ raw_window_handle' = NoHandle
    /\ raw_display_handle' = NoHandle
    /\ physical_devices' = <<>>

ContextNew_CreateSurface ==
    /\ pc = "configured"
    /\ \E native_ok \in BOOLEAN :
        LET r == create_surface(raw_window_handle, raw_display_handle, native_ok)
        IN  CASE r = "ok" ->
                    /\ calls' = Append(calls, "create_surface")
                    /\ pc' = "surface_created"
                    /\ UNCHANGED <<raw_window_handle, raw_display_handle, physical_devices>>
              [] r = "native_error" ->
                    /\ calls' = Append(calls, "create_surface_failed")
                    /\ pc' = FatalOutcome
                    /\ raw_window_handle' = NoHandle
                    /\ raw_display_handle' = NoHandle
                    /\ UNCHANGED physical_devices
              [] r = "mismatch" ->
                    /\ pc' = FatalOutcome
                    /\ raw_window_handle' = NoHandle
                    /\ raw_display_handle' = NoHandle
                    /\ UNCHANGED <<calls, physical_devices>>
              [] OTHER -> Unwind(calls)
    /\ UNCHANGED <<validation_layers, validation_properties, layer_result>>
    /\ UNCHANGED ctxVars
    /\ UNCHANGED restOfLife

\* The ascending sequence of the members of S.
SortedSeq(S) ==
    CHOOSE s \in [1..Cardinality(S) -> S] : \A i, j \in 1..Cardinality(S) : i < j => s[i] < s[j]

ContextNew_ObtainPhysicalDevices_Retry ==
    /\ pc = "surface_created"
    /\ calls' = Append(calls, "enumerate_physical_devices")
    /\ \E ok \in BOOLEAN :
        IF ok
        THEN \E n \in 0..MaxDevices : \E kept \in SUBSET (1..n) :
                /\ physical_devices' = SortedSeq(kept)
                /\ pc' = "devices_obtained"
                /\ UNCHANGED <<raw_window_handle, raw_display_handle>>
        ELSE /\ Count("enumerate_physical_devices") < 2
             /\ pc' = "surface_created"
             /\ UNCHANGED <<raw_window_handle, raw_display_handle, physical_devices>>
    /\ UNCHANGED <<validation_layers, validation_properties, layer_result>>
    /\ UNCHANGED ctxVars
    /\ UNCHANGED restOfLife

ContextNew_ObtainPhysicalDevices ==
    /\ pc = "surface_created"
    /\ calls' = Append(calls, "enumerate_physical_devices")
    /\ \E ok \in BOOLEAN :
        IF ok
        THEN \E n \in 0..MaxDevices : \E kept \in SUBSET (1..n) :
                /\ physical_devices' = SortedSeq(kept)
                /\ pc' = "devices_obtained"
                /\ UNCHANGED <<raw_window_handle, raw_display_handle>>
        ELSE /\ pc' = FatalOutcome
             /\ raw_window_handle' = NoHandle
             /\ raw_display_handle' = NoHandle
             /\ UNCHANGED physical_devices
    /\ UNCHANGED <<validation_layers, validation_properties, layer_result>>
    /\ UNCHANGED ctxVars
    /\ UNCHANGED restOfLife

\* Operation codes of backend/vulkan/utils.rs, by name.
OpCodes == <<"GRAPHICS_OP", "COMPUTE_OP", "TRANSFER_OP", "PRESENT_OP">>

\* What a device reports for one queue family: its flags and whether it can
\* present to the surface.
QueueFamilyKinds ==
    {[graphics |-> TRUE, compute |-> TRUE, transfer |-> TRUE, present |-> TRUE],
     [graphics |-> TRUE, compute |-> TRUE, transfer |-> TRUE, present |-> FALSE],
     [graphics |-> FALSE, compute |-> TRUE, transfer |-> TRUE, present |-> FALSE],
     [graphics |-> FALSE, compute |-> FALSE, transfer |-> TRUE, present |-> FALSE],
     [graphics |-> FALSE, compute |-> FALSE, transfer |-> FALSE, present |-> TRUE],
     [graphics |-> FALSE, compute |-> FALSE, transfer |-> FALSE, present |-> FALSE]}

\* The (operation, family) pairs obtain_queues pushes for family index.
FamilyPairs(queue_family, index) ==
    (IF queue_family.graphics THEN <<<<"GRAPHICS_OP", index>>>> ELSE <<>>)
    \o (IF queue_family.compute THEN <<<<"COMPUTE_OP", index>>>> ELSE <<>>)
    \o (IF queue_family.transfer THEN <<<<"TRANSFER_OP", index>>>> ELSE <<>>)
    \o (IF queue_family.present THEN <<<<"PRESENT_OP", index>>>> ELSE <<>>)

\* The loop of obtain_queues over queue_families[from..]; queue_families is
\* indexed from 0.
RECURSIVE obtain_queues_pairs(_, _)
obtain_queues_pairs(queue_families, from) ==
    IF from \notin DOMAIN queue_families
    THEN <<>>
    ELSE FamilyPairs(queue_families[from], from) \o obtain_queues_pairs(queue_families, from + 1)

\* QueueFamily::single(index) of context.rs.
CtxQueueFamily_single(index) ==
    [some |-> TRUE, index |-> index, count |-> 1, priorities |-> <<DefaultPriority>>]

NoSelections == [o \in 0..(COUNT - 1) |-> None]

\* The selections a queue mapper may return for the feasible pairs: every
\* operation is unassigned or holds QueueFamily::single(f) for a pair
\* (operation, f) it was given; the policy (the default one goes through
\* extract_unique_pairs) picks among them.
MapperOutputs(pairs) ==
    LET feasible(o) == {pairs[i][2] : i \in {k \in 1..Len(pairs) : pairs[k][1] = OpCodes[o + 1]}}
    IN  {sel \in [0..(COUNT - 1) -> {None} \cup {CtxQueueFamily_single(f) : f \in 0..(MaxCtxFamilies - 1)}] :
            \A o \in 0..(COUNT - 1) : sel[o].some => sel[o].index \in feasible(o)}

NoCreateInfos == [valid |-> FALSE, queues |-> <<>>]

\* The loop of select_logical_device over families[from..], one entry per
\* Some element.
RECURSIVE select_logical_device_queues(_, _)
select_logical_device_queues(sel, from) ==
    IF from \notin DOMAIN sel
    THEN <<>>
    ELSE (IF sel[from].some
          THEN <<[queue_family_index |-> sel[from].index,
                  queue_count |-> sel[from].count,
                  p_queue_priorities |-> sel[from].priorities]>>
          ELSE <<>>) \o select_logical_device_queues(sel, from + 1)

\* vk::Queue::default(), the null handle.
NullQueue == "null"

NoContextQueues == [o \in 0..(COUNT - 1) |-> "none"]

\* The queue fields of the Context returned by Context::new.
ContextQueueFields == [o \in 0..(COUNT - 1) |-> NullQueue]

CtxIdle ==
    /\ queue_selections = NoSelections
    /\ queue_create_infos = NoCreateInfos
    /\ context_queues = NoContextQueues
    /\ queried_device = 0
    /\ logical_device = 0

\* physical_devices[0] of Context::new (sequences are indexed from 1 here).
selected_candidate(candidates) == candidates[1]

ContextNew_ObtainQueues_EmptyAccepted ==
    /\ pc = "devices_obtained"
    /\ IF Len(physical_devices) = 0
       THEN /\ calls' = calls
            /\ pc' = "queues_obtained"
            /\ UNCHANGED <<raw_window_handle, raw_display_handle, physical_devices>>
            /\ UNCHANGED <<queue_selections, queried_device>>
       ELSE LET log == Append(calls, "get_physical_device_queue_family_properties")
            IN  /\ queried_device' = selected_candidate(physical_devices)
                /\ \E outcome \in {"ok", "surface_support_error", "mapper_panic"} :
                  CASE outcome = "ok" ->
                          /\ calls' = log
                          /\ pc' = "queues_obtained"
                          /\ \E n \in 0..MaxCtxFamilies :
                             \E queue_families \in [0..(n - 1) -> QueueFamilyKinds] :
                             \E sel \in MapperOutputs(obtain_queues_pairs(queue_families, 0)) :
                                queue_selections' = sel
                          /\ UNCHANGED <<raw_window_handle, raw_display_handle, physical_devices>>
                    [] outcome = "surface_support_error" ->
                          /\ calls' = log
                          /\ pc' = FatalOutcome
                          /\ raw_window_handle' = NoHandle
                          /\ raw_display_handle' = NoHandle
                          /\ physical_devices' = <<>>
                          /\ UNCHANGED queue_selections
                    [] OTHER ->
                          /\ Unwind(log)
                          /\ UNCHANGED queue_selections
    /\ UNCHANGED <<queue_create_infos, context_queues, logical_device>>
    /\ UNCHANGED <<validation_layers, validation_properties, layer_result>>
    /\ UNCHANGED restOfLife

\* The argument &physical_devices[0].device is evaluated before obtain_queues
\* is called: on an empty list the index panics and nothing is queried.
ContextNew_ObtainQueues ==
    /\ pc = "devices_obtained"
    /\ IF Len(physical_devices) = 0
       THEN /\ Unwind(calls)
            /\ UNCHANGED <<queue_selections, queried_device>>
       ELSE LET log == Append(calls, "get_physical_device_queue_family_properties")
            IN  /\ queried_device' = selected_candidate(physical_devices)
                /\ \E outcome \in {"ok", "surface_support_error", "mapper_panic"} :
                  CASE outcome = "ok" ->
                          /\ calls' = log
                          /\ pc' = "queues_obtained"
                          /\ \E n \in 0..MaxCtxFamilies :
                             \E queue_families \in [0..(n - 1) -> QueueFamilyKinds] :
                             \E sel \in MapperOutputs(obtain_queues_pairs(queue_families, 0)) :
                                queue_selections' = sel
                          /\ UNCHANGED <<raw_window_handle, raw_display_handle, physical_devices>>
                    [] outcome = "surface_support_error" ->
                          /\ calls' = log
                          /\ pc' = FatalOutcome
                          /\ raw_window_handle' = NoHandle
                          /\ raw_display_handle' = NoHandle
                          /\ physical_devices' = <<>>
                          /\ UNCHANGED queue_selections
                    [] OTHER ->
                          /\ Unwind(log)
                          /\ UNCHANGED queue_selections
    /\ UNCHANGED <<queue_create_infos, context_queues, logical_device>>
    /\ UNCHANGED <<validation_layers, validation_properties, layer_result>>
    /\ UNCHANGED restOfLife

ContextNew_SelectLogicalDevice ==
    /\ pc = "queues_obtained"
    /\ queue_create_infos' = [valid |-> TRUE,
                              queues |-> select_logical_device_queues(queue_selections, 0)]
    /\ \E ok \in BOOLEAN :
        IF ok
        THEN /\ calls' = Append(calls, "create_device")
             /\ pc' = "context_ready"
             /\ raw_window_handle' = NoHandle
             /\ raw_display_handle' = NoHandle
             /\ context_queues' = ContextQueueFields
             /\ logical_device' = selected_candidate(physical_devices)
             /\ UNCHANGED <<physical_devices, queue_selections>>
        ELSE /\ Unwind(Append(calls, "create_device_failed"))
             /\ queue_selections' = NoSelections
             /\ UNCHANGED <<context_queues, logical_device>>
    /\ UNCHANGED queried_device
    /\ UNCHANGED <<validation_layers, validation_properties, layer_result>>
    /\ UNCHANGED restOfLife

(***************************************************************************)
(* Drop of a Context: no Drop impl, the fields are dropped in declaration  *)
(* order; only base has a destructor.                                      *)
(***************************************************************************)
ContextDropCalls == BaseDropCalls

DropContext ==
    /\ pc = "context_ready"
    /\ calls' = calls \o ContextDropCalls
    /\ pc' = "context_dropped"
    /\ physical_devices' = <<>>
    /\ queue_selections' = NoSelections
    /\ context_queues' = NoContextQueues
    /\ UNCHANGED <<queue_create_infos, queried_device, logical_device>>
    /\ UNCHANGED <<validation_layers, validation_properties, layer_result,
                   raw_window_handle, raw_display_handle>>
    /\ UNCHANGED restOfLife

(***************************************************************************)
(* Surface (surface.rs): Surface::new, Surface::create_surface, Drop       *)
(***************************************************************************)
\* Surface::new is entered with a built Base and the two raw handles.
SurfaceNew_Enter ==
    /\ pc = "base_ready"
    /\ \E window \in Handles, display \in Handles :
        /\ raw_window_handle' = window
        /\ raw_display_handle' = display
    /\ pc' = "surface_new"
    /\ UNCHANGED <<calls, validation_layers, validation_properties, layer_result, physical_devices>>
    /\ UNCHANGED ctxVars
    /\ UNCHANGED restOfLife

Surface_create_surface_NoDisplayCheck(window, display, native_ok) ==
    LET native == IF native_ok THEN "ok" ELSE "native_error"
    IN  CASE window.kind = "Win32" ->
                IF window.field THEN native ELSE "panic"
          [] window.kind = "Wayland" -> native
          [] window.kind = "Xcb" ->
                IF display.field THEN native ELSE "mismatch"
          [] window.kind = "Xlib" ->
                IF display.field THEN native ELSE "mismatch"
          [] OTHER -> "mismatch"

\* Surface::create_surface, outcomes named as for create_surface above.
Surface_create_surface(window, display, native_ok) ==
    LET native == IF native_ok THEN "ok" ELSE "native_error"
    IN  CASE window.kind = "Win32" ->
                IF window.field THEN native ELSE "panic"
          [] window.kind = "Wayland" ->
                IF display.kind = "Wayland" THEN native ELSE "mismatch"
          [] window.kind = "Xcb" ->
                IF display.kind = "Xcb" /\ display.field THEN native ELSE "mismatch"
          [] window.kind = "Xlib" ->
                IF display.kind = "Xlib" /\ display.field THEN native ELSE "mismatch"
          [] OTHER -> "mismatch"

\* The body of Surface::new.  On the fatal outcome and on a panic the
\* arguments of the call stay recorded; base is borrowed, so a panic leaves
\* Surface::new ("surface_panicked") without dropping it.
SurfaceNew_CreateSurface ==
    /\ pc = "surface_new"
    /\ \E native_ok \in BOOLEAN :
        LET r == Surface_create_surface(raw_window_handle, raw_display_handle, native_ok)
        IN  CASE r = "ok" ->
                    /\ calls' = Append(calls, "create_surface")
                    /\ pc' = "surface_ready"
              [] r = "native_error" ->
                    /\ calls' = Append(calls, "create_surface_failed")
                    /\ pc' = FatalOutcome
              [] r = "mismatch" ->
                    /\ pc' = FatalOutcome
                    /\ UNCHANGED calls
              [] OTHER ->
                    /\ pc' = "surface_panicked"
                    /\ UNCHANGED calls
    /\ UNCHANGED <<raw_window_handle, raw_display_handle, physical_devices>>
    /\ UNCHANGED <<validation_layers, validation_properties, layer_result>>
    /\ UNCHANGED ctxVars
    /\ UNCHANGED restOfLife

\* Drop for Surface.
DropSurface ==
    /\ pc = "surface_ready"
    /\ calls' = Append(calls, "destroy_surface")
    /\ pc' = "surface_dropped"
    /\ raw_window_handle' = NoHandle
    /\ raw_display_handle' = NoHandle
    /\ UNCHANGED <<validation_layers, validation_properties, layer_result, physical_devices>>
    /\ UNCHANGED ctxVars
    /\ UNCHANGED restOfLife

(***************************************************************************)
(* Specification                                                           *)
(***************************************************************************)
NoDevices == [kind |-> "none", list |-> <<>>]

DevIdle ==
    /\ device_extensions = <<>>
    /\ checked_devices = <<>>
    /\ extension_checks = <<>>
    /\ devices = NoDevices

\* A u32 as two 16-bit halves.
Zero32 == [hi |-> 0, lo |-> 0]

NoConfig == [op |-> "none", kind |-> "none", version |-> Zero32, text |-> <<>>]

CfgIdle ==
    /\ application_name = <<>>
    /\ version_str = <<>>
    /\ config_result = NoConfig

CallbackIdle ==
    /\ message_severity = {}
    /\ message_type = {}
    /\ log_records = <<>>
    /\ callback_return = <<>>

\* BaseConfigBuilder::new().
BaseConfigBuilder_new == [validation_layers |-> None, vulkan_extensions |-> None]

NoBaseConfig == [kind |-> "none"]

NoInstanceInfo == [valid |-> FALSE, layers |-> <<>>, extensions |-> <<>>]

BuilderIdle ==
    /\ builder = BaseConfigBuilder_new
    /\ base_config = NoBaseConfig
    /\ instance_info = NoInstanceInfo

\* QueueFamilyIndices::new(None).
QueueFamilyIndices_new == [graphics_family |-> None, surface_family |-> None]

RendererIdle ==
    /\ vk_pc = "idle"
    /\ device_queue_families = <<>>
    /\ queue_family_indices = QueueFamilyIndices_new
    /\ queue = None
    /\ image_count = 0
    /\ frame_calls = <<>>
    /\ drop_calls = <<>>
    /\ fence_signalled = FALSE
    /\ gpu_pending = FALSE
    /\ frames = 0

Threads == 1..MaxThreads

\* The process before any thread called Logger::init: Once::new(), no logger
\* installed, the log crate's initial maximum level.
LoggerIdle ==
    /\ once_state = "incomplete"
    /\ logger = "none"
    /\ max_level = "Off"
    /\ thread_pc = [t \in Threads |-> "idle"]
    /\ thread_level = [t \in Threads |-> "Off"]
    /\ installs = 0
    /\ init_level = "none"
    /\ init_calls = 0

ExtraIdle ==
    /\ CallbackIdle
    /\ BuilderIdle
    /\ RendererIdle
    /\ LoggerIdle

\* No to_vk_creation_info result.
NoInfo == [valid |-> FALSE, queues |-> <<>>]

QueueIdle ==
    /\ families = <<>>
    /\ operations = <<>>
    /\ insert_result = "none"
    /\ last_call = <<>>
    /\ creation_info = NoInfo

Init ==
    /\ pc = "start"
    /\ calls = <<>>
    /\ validation_layers \in SeqsUpTo(RequestedNames, MaxRequested)
    /\ validation_properties = <<>>
    /\ layer_result = NoResult
    /\ raw_window_handle = NoHandle
    /\ raw_display_handle = NoHandle
    /\ physical_devices = <<>>
    /\ CtxIdle
    /\ QueueIdle
    /\ DevIdle
    /\ CfgIdle
    /\ ExtraIdle

Next ==
    \/ BaseNew_LoadEntry
    \/ BaseNew_Validate
    \/ BaseNew_ReturnErr
    \/ BaseNew_CreateInstance
    \/ BaseNew_CreateMessenger
    \/ DropBase
    \/ ContextConfiguratorNew
    \/ ContextNew_CreateSurface
    \/ ContextNew_ObtainPhysicalDevices
    \/ ContextNew_ObtainQueues
    \/ ContextNew_SelectLogicalDevice
    \/ DropContext
    \/ SurfaceNew_Enter
    \/ SurfaceNew_CreateSurface
    \/ DropSurface

Spec == Init /\ [][Next]_vars

(***************************************************************************)
(* QueueSelections (queue.rs)                                              *)
(***************************************************************************)
QueueFamily(count, priorities) == [some |-> TRUE, count |-> count, priorities |-> priorities]

QueueFamily_single == QueueFamily(1, <<DefaultPriority>>)

QueueFamilyHandle(index, offset) == [some |-> TRUE, index |-> index, offset |-> offset]

QueueSelections_new(family_count) ==
    [families |-> [i \in 0..(family_count - 1) |-> None],
     operations |-> [o \in 0..(COUNT - 1) |-> None]]

\* Variant: no early return for an operation that is already assigned.
insert_operation_NoGuard(sel, operation, family_index) ==
    IF operation \notin DOMAIN sel.operations \/ family_index \notin DOMAIN sel.families
    THEN [sel |-> sel, result |-> "panic"]
    ELSE IF sel.families[family_index].some
    THEN LET handle == sel.families[family_index]
         IN  [sel |-> [families |-> [sel.families EXCEPT ![family_index] =
                                        QueueFamily(handle.count + 1,
                                                    Append(handle.priorities, DefaultPriority))],
                       operations |-> [sel.operations EXCEPT ![operation] =
                                        QueueFamilyHandle(family_index, handle.count)]],
              result |-> IF sel.operations[operation].some THEN "err" ELSE "ok"]
    ELSE [sel |-> [families |-> [sel.families EXCEPT ![family_index] = QueueFamily_single],
                   operations |-> [sel.operations EXCEPT ![operation] =
                                        QueueFamilyHandle(family_index, 0)]],
          result |-> IF sel.operations[operation].some THEN "err" ELSE "ok"]

\* Variant: the offset is taken after the count was incremented, minus two.
insert_operation_StaleOffset(sel, operation, family_index) ==
    IF operation \notin DOMAIN sel.operations
    THEN [sel |-> sel, result |-> "panic"]
    ELSE IF sel.operations[operation].some
    THEN [sel |-> sel, result |-> "err"]
    ELSE IF family_index \notin DOMAIN sel.families
    THEN [sel |-> sel, result |-> "panic"]
    ELSE IF sel.families[family_index].some
    THEN LET handle == sel.families[family_index]
         IN  [sel |-> [families |-> [sel.families EXCEPT ![family_index] =
                                        QueueFamily(handle.count + 1,
                                                    Append(handle.priorities, DefaultPriority))],
                       operations |-> [sel.operations EXCEPT ![operation] =
                                        QueueFamilyHandle(family_index, handle.count - 1)]],
              result |-> "ok"]
    ELSE [sel |-> [families |-> [sel.families EXCEPT ![family_index] = QueueFamily_single],
                   operations |-> [sel.operations EXCEPT ![operation] =
                                        QueueFamilyHandle(family_index, 0)]],
          result |-> "ok"]

\* Variant: the count of an allocated family grows without a new priority.
insert_operation_NoPriority(sel, operation, family_index) ==
    IF operation \notin DOMAIN sel.operations
    THEN [sel |-> sel, result |-> "panic"]
    ELSE IF sel.operations[operation].some
    THEN [sel |-> sel, result |-> "err"]
    ELSE IF family_index \notin DOMAIN sel.families
    THEN [sel |-> sel, result |-> "panic"]
    ELSE IF sel.families[family_index].some
    THEN LET handle == sel.families[family_index]
         IN  [sel |-> [families |-> [sel.families EXCEPT ![family_index] =
                                        QueueFamily(handle.count + 1, handle.priorities)],
                       operations |-> [sel.operations EXCEPT ![operation] =
                                        QueueFamilyHandle(family_index, handle.count)]],
              result |-> "ok"]
    ELSE [sel |-> [families |-> [sel.families EXCEPT ![family_index] = QueueFamily_single],
                   operations |-> [sel.operations EXCEPT ![operation] =
                                        QueueFamilyHandle(family_index, 0)]],
          result |-> "ok"]

\* Variant: an allocated family is replaced by a fresh single-queue family.
insert_operation_SingleAgain(sel, operation, family_index) ==
    IF operation \notin DOMAIN sel.operations
    THEN [sel |-> sel, result |-> "panic"]
    ELSE IF sel.operations[operation].some
    THEN [sel |-> sel, result |-> "err"]
    ELSE IF family_index \notin DOMAIN sel.families
    THEN [sel |-> sel, result |-> "panic"]
    ELSE IF sel.families[family_index].some
    THEN LET handle == sel.families[family_index]
         IN  [sel |-> [families |-> [sel.families EXCEPT ![family_index] = QueueFamily_single],
                       operations |-> [sel.operations EXCEPT ![operation] =
                                        QueueFamilyHandle(family_index, handle.count)]],
              result |-> "ok"]
    ELSE [sel |-> [families |-> [sel.families EXCEPT ![family_index] = QueueFamily_single],
                   operations |-> [sel.operations EXCEPT ![operation] =
                                        QueueFamilyHandle(family_index, 0)]],
          result |-> "ok"]

\* Result of insert_operation on the selections sel: the new selections and
\* "ok", "err" (Operation already exists!) or "panic" (index out of bounds).
\* A count never exceeds COUNT (one increment per assigned operation), so the
\* u32 addition cannot wrap.
insert_operation(sel, operation, family_index) ==
    IF operation \notin DOMAIN sel.operations
    THEN [sel |-> sel, result |-> "panic"]
    ELSE IF sel.operations[operation].some
    THEN [sel |-> sel, result |-> "err"]
    ELSE IF family_index \notin DOMAIN sel.families
    THEN [sel |-> sel, result |-> "panic"]
    ELSE IF sel.families[family_index].some
    THEN LET handle == sel.families[family_index]
         IN  [sel |-> [families |-> [sel.families EXCEPT ![family_index] =
                                        QueueFamily(handle.count + 1,
                                                    Append(handle.priorities, DefaultPriority))],
                       operations |-> [sel.operations EXCEPT ![operation] =
                                        QueueFamilyHandle(family_index, handle.count)]],
              result |-> "ok"]
    ELSE [sel |-> [families |-> [sel.families EXCEPT ![family_index] = QueueFamily_single],
                   operations |-> [sel.operations EXCEPT ![operation] =
                                        QueueFamilyHandle(family_index, 0)]],
          result |-> "ok"]

LifeIdle ==
    /\ pc = "idle"
    /\ calls = <<>>
    /\ validation_layers = <<>>
    /\ validation_properties = <<>>
    /\ layer_result = NoResult
    /\ raw_window_handle = NoHandle
    /\ raw_display_handle = NoHandle
    /\ physical_devices = <<>>
    /\ CtxIdle

InitQueue ==
    /\ LifeIdle
    /\ DevIdle
    /\ CfgIdle
    /\ ExtraIdle
    /\ \E family_count \in 0..MaxFamilies :
        /\ families = QueueSelections_new(family_count).families
        /\ operations = QueueSelections_new(family_count).operations
    /\ insert_result = "none"
    /\ last_call = <<>>
    /\ creation_info = NoInfo

\* One call of insert_operation; an operation of COUNT and a family index of
\* families.len() stand for the out-of-range arguments.
InsertOperation ==
    /\ insert_result # "panic"
    /\ \E operation \in 0..COUNT, family_index \in 0..Cardinality(DOMAIN families) :
        LET r == insert_operation([families |-> families, operations |-> operations],
                                  operation, family_index)
        IN  /\ families' = r.sel.families
            /\ operations' = r.sel.operations
            /\ insert_result' = r.result
            /\ last_call' = <<operation, family_index>>
    /\ creation_info' = NoInfo
    /\ UNCHANGED restOfQueue

\* Variant: the entry carries the position in the output instead of the
\* family index.
DeviceQueueCreateInfo_Position(fams, index) ==
    [queue_family_index |-> Cardinality({i \in DOMAIN fams : i <= index /\ fams[i].some}) - 1,
     queue_count |-> fams[index].count,
     p_queue_priorities |-> fams[index].priorities]

\* The entry pushed for the allocated family at index.
DeviceQueueCreateInfo(fams, index) ==
    [queue_family_index |-> index,
     queue_count |-> fams[index].count,
     p_queue_priorities |-> fams[index].priorities]

\* The loop of to_vk_creation_info over families[from..], appending to queues.
RECURSIVE to_vk_creation_info_loop(_, _, _)
to_vk_creation_info_loop(fams, from, queues) ==
    IF from \notin DOMAIN fams
    THEN queues
    ELSE to_vk_creation_info_loop(fams, from + 1,
            IF fams[from].some
            THEN Append(queues, DeviceQueueCreateInfo(fams, from))
            ELSE queues)

to_vk_creation_info(fams) == to_vk_creation_info_loop(fams, 0, <<>>)

ToVkCreationInfo ==
    /\ insert_result # "panic"
    /\ creation_info' = [valid |-> TRUE, queues |-> to_vk_creation_info(families)]
    /\ insert_result' = "none"
    /\ last_call' = <<>>
    /\ UNCHANGED <<families, operations>>
    /\ UNCHANGED restOfQueue

NextQueue ==
    \/ InsertOperation
    \/ ToVkCreationInfo

SpecQueue == InitQueue /\ [][NextQueue]_vars

(***************************************************************************)
(* Device enumeration (context.rs): SpecDevices                            *)
(***************************************************************************)
ExtensionNames == {"VK_KHR_swapchain", "VK_KHR_maintenance1"}

DeviceTypes == {"DISCRETE_GPU", "INTEGRATED_GPU"}

\* What the driver reports for one physical device: its extensions, the
\* number of surface formats and present modes, and its type.
DriverDevices ==
    [extensions : SeqsUpTo(ExtensionNames, MaxDeviceExt),
     surface : {[formats |-> 1, present_modes |-> 1],
                [formats |-> 0, present_modes |-> 1],
                [formats |-> 1, present_modes |-> 0]},
     device_type : DeviceTypes]

\* The loop of validate_physical_device_extensions over reported[from..];
\* extension_req is the set of required names not yet seen.
RECURSIVE validate_extensions_loop(_, _, _)
validate_extensions_loop(extension_req, reported, from) ==
    IF from > Len(reported)
    THEN extension_req = {}
    ELSE IF reported[from] \notin extension_req
    THEN FALSE
    ELSE validate_extensions_loop(extension_req \ {reported[from]}, reported, from + 1)

validate_physical_device_extensions(required, reported) ==
    validate_extensions_loop(Range(required), reported, 1)

\* Variant: the present modes are not looked at.
obtain_device_surface_properties_FormatsOnly(device) ==
    IF device.surface.formats = 0
    THEN None
    ELSE [some |-> TRUE, formats |-> device.surface.formats,
          present_modes |-> device.surface.present_modes]

\* Some(properties) exactly when neither list is empty.
obtain_device_surface_properties(device) ==
    IF device.surface.formats = 0 \/ device.surface.present_modes = 0
    THEN None
    ELSE [some |-> TRUE, formats |-> device.surface.formats,
          present_modes |-> device.surface.present_modes]

\* Some(features) exactly for a discrete GPU.
default_device_mapper(device) ==
    IF device.device_type # "DISCRETE_GPU"
    THEN None
    ELSE [some |-> TRUE, features |-> "default"]

PhysicalDeviceInfo(index, device) ==
    [device |-> index,
     features |-> default_device_mapper(device).features,
     surface_properties |-> obtain_device_surface_properties(device)]

\* The loop of obtain_physical_devices over checked[from..], appending to kept.
RECURSIVE obtain_physical_devices_loop(_, _, _, _)
obtain_physical_devices_loop(required, checked, from, kept) ==
    IF from > Len(checked)
    THEN kept
    ELSE obtain_physical_devices_loop(required, checked, from + 1,
            IF ~validate_physical_device_extensions(required, checked[from].extensions)
            THEN kept
            ELSE IF obtain_device_surface_properties(checked[from]).some
                    /\ default_device_mapper(checked[from]).some
            THEN Append(kept, PhysicalDeviceInfo(from, checked[from]))
            ELSE kept)

obtain_physical_devices(required, checked) ==
    obtain_physical_devices_loop(required, checked, 1, <<>>)

InitDevices ==
    /\ LifeIdle
    /\ QueueIdle
    /\ CfgIdle
    /\ ExtraIdle
    /\ device_extensions \in SeqsUpTo(ExtensionNames, MaxRequiredExt)
    /\ checked_devices \in SeqsUpTo(DriverDevices, MaxEnumerated)
    /\ extension_checks = <<>>
    /\ devices = NoDevices

\* One run of obtain_physical_devices; a failing native query is fatal.
ObtainPhysicalDevices ==
    /\ devices.kind = "none"
    /\ \E native_ok \in BOOLEAN :
        IF native_ok
        THEN /\ devices' = [kind |-> "ok",
                            list |-> obtain_physical_devices(device_extensions, checked_devices)]
             /\ extension_checks' =
                    [i \in 1..Len(checked_devices) |->
                        validate_physical_device_extensions(device_extensions,
                                                            checked_devices[i].extensions)]
        ELSE /\ devices' = [kind |-> FatalOutcome, list |-> <<>>]
             /\ UNCHANGED extension_checks
    /\ UNCHANGED <<device_extensions, checked_devices>>
    /\ UNCHANGED restOfDev

NextDevices == ObtainPhysicalDevices

SpecDevices == InitDevices /\ [][NextDevices]_vars

(***************************************************************************)
(* Properties of the lifecycle (Spec)                                      *)
(***************************************************************************)
\* C1: for a fully constructed Context that is then destroyed, the logical
\* device is destroyed before the surface, the surface before the instance,
\* and the debug messenger before the instance.
C1_ContextDestroyOrder ==
    pc = "context_dropped" =>
        /\ 0 < Pos("destroy_device")
        /\ Pos("destroy_device") < Pos("destroy_surface")
        /\ Pos("destroy_surface") < Pos("destroy_instance")
        /\ 0 < Pos("destroy_debug_utils_messenger")
        /\ Pos("destroy_debug_utils_messenger") < Pos("destroy_instance")

\* C2: destroying a Context gives each native handle its construction
\* created (instance, debug messenger, surface, logical device) exactly one
\* destroy call.
C2_ContextReleasesEveryHandle ==
    pc = "context_dropped" =>
        /\ Count("create_instance") = 1 /\ Count("destroy_instance") = 1
        /\ Count("create_debug_utils_messenger") = 1 /\ Count("destroy_debug_utils_messenger") = 1
        /\ Count("create_surface") = 1 /\ Count("destroy_surface") = 1
        /\ Count("create_device") = 1 /\ Count("destroy_device") = 1

\* C3: when a step of Base::new fails after an earlier native creation
\* succeeded (the messenger creation fails after the instance was created),
\* every handle created so far has been destroyed when the failure is
\* reported.
C3_BaseNewFailureReleasesInstance ==
    (pc = FatalOutcome /\ "create_debug_utils_messenger_failed" \in Range(calls)) =>
        Count("destroy_instance") = Count("create_instance")

\* C4: when a successfully constructed Base is destroyed, the debug messenger
\* is destroyed first and the instance second, each exactly once, and no
\* call follows the destruction of the instance.
C4_BaseDropOrder ==
    /\ Count("destroy_debug_utils_messenger") <= 1
    /\ Count("destroy_instance") <= 1
    /\ pc \in {"base_dropped", "context_dropped", "panicked"} =>
            /\ Count("destroy_debug_utils_messenger") = 1
            /\ Count("destroy_instance") = 1
    /\ "destroy_instance" \in Range(calls) =>
            /\ Pos("destroy_instance") = Len(calls)
            /\ 0 < Pos("destroy_debug_utils_messenger")
            /\ Pos("destroy_debug_utils_messenger") < Pos("destroy_instance")

C4_Witness ==
    /\ pc = "base_dropped"
    /\ Pos("destroy_debug_utils_messenger") = Len(calls) - 1
    /\ Pos("destroy_instance") = Len(calls)

Absent(i) == validation_layers[i] \notin Range(validation_properties)

\* C5: when the driver reports at least one layer and some requested layer is
\* absent from the reported set, validate_layer_availability fails with
\* ValidationLayerNotSupported(i), i the (0-based) position of the first
\* absent entry in the requested list.
C5_ReportsFirstAbsentIndex ==
    (/\ pc = "validated"
     /\ Len(validation_properties) > 0
     /\ \E i \in 1..Len(validation_layers) : Absent(i)) =>
        \E i \in 1..Len(validation_layers) :
            /\ Absent(i)
            /\ \A j \in 1..(i - 1) : ~Absent(j)
            /\ layer_result = ValidationLayerNotSupported(i - 1)

\* C6: when the driver reports at least one layer, validate_layer_availability
\* succeeds exactly when every requested layer is in the reported set (the
\* empty list and lists with repeated names included) and fails otherwise.
C6_SuccessIffAllReported ==
    (pc = "validated" /\ Len(validation_properties) > 0) =>
        /\ layer_result.kind \in {"ok", "err"}
        /\ layer_result.kind = "ok" <=> \A i \in 1..Len(validation_layers) : ~Absent(i)

C6_Witness ==
    /\ pc = "validated"
    /\ Len(validation_properties) > 0
    /\ Len(validation_layers) = 3
    /\ validation_layers[1] = validation_layers[2]
    /\ validation_layers[3] # validation_layers[1]
    /\ layer_result = Ok

NativeObjectCalls ==
    {"create_instance", "create_instance_failed", "create_debug_utils_messenger",
     "create_debug_utils_messenger_failed", "destroy_debug_utils_messenger", "destroy_instance"}

\* C8: Base::new validates the layers before it creates any native object;
\* when validation fails the error is returned to the caller (no fatal
\* outcome) and neither an instance nor a messenger is created or destroyed;
\* on success the instance is created before the messenger.
C8_ValidateBeforeCreate ==
    /\ layer_result.kind = "err" =>
            /\ pc \in {"validated", "base_err"}
            /\ Range(calls) \cap NativeObjectCalls = {}
    /\ Range(calls) \cap NativeObjectCalls # {} =>
            /\ layer_result.kind = "ok"
            /\ calls[1] = "enumerate_instance_layer_properties"
    /\ "create_debug_utils_messenger" \in Range(calls) =>
            /\ 0 < Pos("create_instance")
            /\ Pos("create_instance") < Pos("create_debug_utils_messenger")

C8_Witness ==
    /\ pc = "base_err"
    /\ layer_result.kind = "err"
    /\ calls = <<"enumerate_instance_layer_properties">>

(***************************************************************************)
(* Properties of QueueSelections (SpecQueue)                               *)
(***************************************************************************)
\* The step is a call of insert_operation on an operation that already has
\* an assignment.
InsertOnAssigned ==
    /\ last_call' # <<>>
    /\ last_call'[1] \in DOMAIN operations
    /\ operations[last_call'[1]].some

\* C9: insert_operation on an operation that already has an assignment fails
\* with the already-assigned error and leaves families and operations
\* unchanged, whichever family index was passed.
C9_FailedInsertChangesNothing ==
    [][InsertOnAssigned =>
            /\ insert_result' = "err"
            /\ families' = families
            /\ operations' = operations]_vars

\* A failed insert that named another, allocated family than the one the
\* operation is assigned to.
C9_Witness ==
    /\ insert_result = "err"
    /\ last_call[2] \in DOMAIN families
    /\ families[last_call[2]].some
    /\ operations[last_call[1]].index # last_call[2]

NoSharedHandle ==
    \A a, b \in DOMAIN operations :
        (a # b /\ operations[a].some /\ operations[b].some) =>
            <<operations[a].index, operations[a].offset>> # <<operations[b].index, operations[b].offset>>

\* C10: after any sequence of insert_operation calls on a fresh
\* QueueSelections no two distinct operations hold the same (family index,
\* offset) pair, and inserting an operation a second time fails.
C10_NoCollision ==
    [][/\ NoSharedHandle'
       /\ InsertOnAssigned => insert_result' = "err"]_vars

\* All four operations assigned, three of them to the same family.
C10_Witness ==
    /\ \A o \in DOMAIN operations : operations[o].some
    /\ \E f \in DOMAIN families : families[f].some /\ families[f].count = 3
    /\ insert_result = "err"

\* The step is a call of insert_operation(op, f) that returned Ok.
InsertSucceeded(op, f) ==
    /\ last_call' = <<op, f>>
    /\ insert_result' = "ok"

\* C11: a successful insert_operation(op, f) gives a family f without
\* allocation count 1, priorities [1.0] and assigns op (f, 0); it gives a
\* family f with count n count n + 1, one more priority 1.0 and assigns op
\* (f, n); every other family and every other operation is unchanged. The
\* call succeeds whenever op is unassigned and both indices are in range.
C11_InsertEffect ==
    [][\A op \in 0..COUNT, f \in 0..(MaxFamilies + 1) :
        /\ (/\ last_call' = <<op, f>>
            /\ op \in DOMAIN operations
            /\ f \in DOMAIN families
            /\ ~operations[op].some) => insert_result' = "ok"
        /\ InsertSucceeded(op, f) =>
            /\ IF families[f].some
               THEN /\ families'[f] = QueueFamily(families[f].count + 1,
                                                 Append(families[f].priorities, DefaultPriority))
                    /\ operations'[op] = QueueFamilyHandle(f, families[f].count)
               ELSE /\ families'[f] = QueueFamily(1, <<DefaultPriority>>)
                    /\ operations'[op] = QueueFamilyHandle(f, 0)
            /\ \A g \in DOMAIN families : g # f => families'[g] = families[g]
            /\ \A o \in DOMAIN operations : o # op => operations'[o] = operations[o]
            /\ DOMAIN families' = DOMAIN families
            /\ DOMAIN operations' = DOMAIN operations]_vars

\* A third operation was just added to a family that already held two, while
\* another family is allocated.
C11_Witness ==
    /\ insert_result = "ok"
    /\ families[last_call[2]].count = 3
    /\ Len(families[last_call[2]].priorities) = 3
    /\ operations[last_call[1]].offset = 2
    /\ \E g \in DOMAIN families : g # last_call[2] /\ families[g].some

Allocated == {i \in DOMAIN families : families[i].some}

\* C12: to_vk_creation_info returns exactly one entry for each family index
\* that has an allocation and none for the others, in strictly ascending
\* family-index order, each entry carrying the family's index and its
\* current queue count.
C12_CreationInfoPerFamily ==
    creation_info.valid =>
        /\ Len(creation_info.queues) = Cardinality(Allocated)
        /\ {creation_info.queues[i].queue_family_index : i \in 1..Len(creation_info.queues)} = Allocated
        /\ \A i, j \in 1..Len(creation_info.queues) :
                i < j => creation_info.queues[i].queue_family_index < creation_info.queues[j].queue_family_index
        /\ \A i \in 1..Len(creation_info.queues) :
                creation_info.queues[i].queue_count = families[creation_info.queues[i].queue_family_index].count

\* Two allocated families around one without allocation, one of them with
\* two queues.
C12_Witness ==
    /\ creation_info.valid
    /\ Len(creation_info.queues) = 2
    /\ creation_info.queues[1].queue_family_index = 0
    /\ creation_info.queues[2].queue_family_index = 2
    /\ creation_info.queues[2].queue_count = 2

(***************************************************************************)
(* Properties of the device enumeration (SpecDevices)                      *)
(***************************************************************************)
\* C13: a physical device passes the extension check exactly when every
\* required device extension is among the extensions it reports; extensions
\* reported beyond the required ones do not reject it.
C13_ExtensionCheckIsContainment ==
    devices.kind = "ok" =>
        \A i \in 1..Len(checked_devices) :
            extension_checks[i] <=>
                Range(device_extensions) \subseteq Range(checked_devices[i].extensions)

Kept == {devices.list[k].device : k \in 1..Len(devices.list)}

\* C14: every device of the candidate list reported at least one surface
\* format and one present mode and was accepted by the device mapper (it is
\* a discrete GPU); a device that passes the extension check, has formats
\* and present modes and is accepted by the mapper is always retained, once
\* and in enumeration order.
C14_CandidatesAreUsable ==
    devices.kind = "ok" =>
        /\ \A i \in Kept :
            /\ i \in 1..Len(checked_devices)
            /\ checked_devices[i].surface.formats >= 1
            /\ checked_devices[i].surface.present_modes >= 1
            /\ checked_devices[i].device_type = "DISCRETE_GPU"
        /\ \A i \in 1..Len(checked_devices) :
            (/\ extension_checks[i]
             /\ checked_devices[i].surface.formats >= 1
             /\ checked_devices[i].surface.present_modes >= 1
             /\ checked_devices[i].device_type = "DISCRETE_GPU") => i \in Kept
        /\ \A k, l \in 1..Len(devices.list) :
            k < l => devices.list[k].device < devices.list[l].device

\* The second of two enumerated devices is kept, the first is dropped for
\* its missing present modes.
C14_Witness ==
    /\ devices.kind = "ok"
    /\ Len(checked_devices) = 2
    /\ extension_checks[1]
    /\ checked_devices[1].surface.present_modes = 0
    /\ checked_devices[1].device_type = "DISCRETE_GPU"
    /\ Kept = {2}

(***************************************************************************)
(* Properties of the queues of a Context (Spec)                            *)
(***************************************************************************)
\* C16: after Context construction completes, for every operation that was
\* assigned a queue family the Context holds the queue handle fetched from
\* the logical device; no assigned operation is left with a null handle.
C16_AssignedOperationsHaveQueues ==
    pc = "context_ready" =>
        \A o \in 0..(COUNT - 1) :
            queue_selections[o].some =>
                /\ context_queues[o] # NullQueue
                /\ "get_device_queue" \in Range(calls)

AssignedFamilies == {queue_selections[o].index : o \in {q \in 0..(COUNT - 1) : queue_selections[q].some}}

\* C17: the queue-create-info list handed to logical-device creation has
\* exactly one entry per queue family with at least one operation assigned;
\* no family index appears twice, also when several operations are assigned
\* to the same family.
C17_OneCreateInfoPerFamily ==
    (queue_create_infos.valid /\ pc = "context_ready") =>
        LET infos == queue_create_infos.queues
        IN  /\ {infos[i].queue_family_index : i \in 1..Len(infos)} = AssignedFamilies
            /\ \A i, j \in 1..Len(infos) :
                    i # j => infos[i].queue_family_index # infos[j].queue_family_index

(***************************************************************************)
(* Configuration building: to_c_str, to_version, BaseConfigBuilder::build  *)
(* (SpecConfig).  Strings are sequences of one-character strings; "NUL" is *)
(* the zero byte.                                                          *)
(***************************************************************************)
DigitChars == <<"0", "1", "2", "3", "4", "5", "6", "7", "8", "9">>

\* Version components offered as input: the text, whether it is a plain
\* decimal number, and the number it denotes.  No text has more than four
\* digits, so no component exceeds u32.
ComponentTable ==
    {[text |-> <<"0">>, numeric |-> TRUE, value |-> 0],
     [text |-> <<"1">>, numeric |-> TRUE, value |-> 1],
     [text |-> <<"1", "2", "7">>, numeric |-> TRUE, value |-> 127],
     [text |-> <<"1", "2", "8">>, numeric |-> TRUE, value |-> 128],
     [text |-> <<"1", "0", "2", "3">>, numeric |-> TRUE, value |-> 1023],
     [text |-> <<"1", "0", "2", "4">>, numeric |-> TRUE, value |-> 1024],
     [text |-> <<"4", "0", "9", "5">>, numeric |-> TRUE, value |-> 4095],
     [text |-> <<"4", "0", "9", "6">>, numeric |-> TRUE, value |-> 4096],
     [text |-> <<"+", "2">>, numeric |-> FALSE, value |-> 0],
     [text |-> <<"x">>, numeric |-> FALSE, value |-> 0],
     [text |-> <<>>, numeric |-> FALSE, value |-> 0]}

ComponentTexts == {e.text : e \in ComponentTable}

NumericComponents == {e \in ComponentTable : e.numeric}

RECURSIVE Join(_)
Join(cs) ==
    IF Len(cs) = 0 THEN <<>>
    ELSE IF Len(cs) = 1 THEN cs[1]
    ELSE cs[1] \o <<".">> \o Join(Tail(cs))

VersionStrings == {Join(cs) : cs \in SeqsUpTo(ComponentTexts, MaxComponents)}

\* Version strings given to build for the engine and the API.
OtherVersions == {Join(<<<<"1">>, <<"0">>, <<"0">>>>), Join(<<<<"1">>, <<"0">>>>)}

Names == {<<"a", "p", "p">>, <<"a", "NUL", "p">>}

\* u32 arithmetic on halves: v < 2^31 as a u32.
FromNat(v) == [hi |-> (v \div 65536) % 65536, lo |-> v % 65536]

\* x << k on 32 bits, 0 <= k < 32: the bits shifted out are lost.
Shl(x, k) ==
    IF k >= 16
    THEN [hi |-> (x.lo * 2^(k - 16)) % 65536, lo |-> 0]
    ELSE [hi |-> (x.hi * 2^k + (x.lo * 2^k) \div 65536) % 65536,
          lo |-> (x.lo * 2^k) % 65536]

RECURSIVE BitOr16(_, _)
BitOr16(a, b) ==
    IF a = 0 THEN b
    ELSE IF b = 0 THEN a
    ELSE (IF a % 2 = 1 \/ b % 2 = 1 THEN 1 ELSE 0) + 2 * BitOr16(a \div 2, b \div 2)

Or32(x, y) == [hi |-> BitOr16(x.hi, y.hi), lo |-> BitOr16(x.lo, y.lo)]

\* vk::make_api_version: (variant << 29) | (major << 22) | (minor << 12) | patch.
make_api_version(variant, major, minor, patch) ==
    Or32(Or32(Shl(FromNat(variant), 29), Shl(FromNat(major), 22)),
         Or32(Shl(FromNat(minor), 12), FromNat(patch)))

\* str::split("."): the pieces between the separators, empty ones included.
RECURSIVE split_loop(_, _, _)
split_loop(s, i, piece) ==
    IF i > Len(s) THEN <<piece>>
    ELSE IF s[i] = "." THEN <<piece>> \o split_loop(s, i + 1, <<>>)
    ELSE split_loop(s, i + 1, Append(piece, s[i]))

split(s) == split_loop(s, 1, <<>>)

DigitValue(c) == CHOOSE d \in 0..9 : DigitChars[d + 1] = c

RECURSIVE DecimalValue(_)
DecimalValue(digits) ==
    IF Len(digits) = 0 THEN 0
    ELSE DecimalValue(SubSeq(digits, 1, Len(digits) - 1)) * 10 + DigitValue(digits[Len(digits)])

\* str::parse::<u32>: an optional "+", then at least one decimal digit.
parse_u32(text) ==
    LET digits == IF Len(text) > 0 /\ text[1] = "+" THEN Tail(text) ELSE text
    IN  IF Len(digits) = 0 \/ \E i \in 1..Len(digits) : digits[i] \notin Range(DigitChars)
        THEN [ok |-> FALSE, value |-> 0]
        ELSE [ok |-> TRUE, value |-> DecimalValue(digits)]

\* The i-th next().unwrap().parse::<u32>().unwrap() of to_version.
VersionComponent(parts, i) ==
    IF i > Len(parts) THEN [ok |-> FALSE, value |-> 0] ELSE parse_u32(parts[i])

to_version_Swapped(version) ==
    LET parts == split(version)
        major == VersionComponent(parts, 1)
        minor == VersionComponent(parts, 2)
        patch == VersionComponent(parts, 3)
    IN  IF major.ok /\ minor.ok /\ patch.ok
        THEN [kind |-> "version", version |-> make_api_version(0, major.value, patch.value, minor.value)]
        ELSE [kind |-> "panic", version |-> Zero32]

to_version(version) ==
    LET parts == split(version)
        major == VersionComponent(parts, 1)
        minor == VersionComponent(parts, 2)
        patch == VersionComponent(parts, 3)
    IN  IF major.ok /\ minor.ok /\ patch.ok
        THEN [kind |-> "version", version |-> make_api_version(0, major.value, minor.value, patch.value)]
        ELSE [kind |-> "panic", version |-> Zero32]

\* CString::new(s).unwrap(): panics on an interior zero byte, otherwise the
\* bytes followed by the terminator.
to_c_str(s) ==
    IF "NUL" \in Range(s)
    THEN [kind |-> "panic", text |-> <<>>]
    ELSE [kind |-> "c_string", text |-> Append(s, "NUL")]

to_c_str_array(names) == [i \in 1..Len(names) |-> to_c_str(names[i])]

Some(v) == [some |-> TRUE, value |-> v]

\* BaseConfigBuilder::build on the builder self: a panic of any field
\* expression unwinds out of build; otherwise the BaseConfig (its application
\* name and version, its layers and its optional extension list kept).
build(self, name, engine_name, vulkan_api_version, application_version, engine_version) ==
    LET layers == IF self.validation_layers.some THEN self.validation_layers.value ELSE <<>>
        c_name == to_c_str(name)
        c_engine == to_c_str(engine_name)
        c_layers == to_c_str_array(layers)
        app == to_version(application_version)
        engine == to_version(engine_version)
        api == to_version(vulkan_api_version)
        c_extensions == IF self.vulkan_extensions.some
                        THEN to_c_str_array(self.vulkan_extensions.value)
                        ELSE <<>>
    IN  IF \/ c_name.kind = "panic"
           \/ c_engine.kind = "panic"
           \/ \E i \in 1..Len(c_layers) : c_layers[i].kind = "panic"
           \/ app.kind = "panic"
           \/ engine.kind = "panic"
           \/ api.kind = "panic"
           \/ \E i \in 1..Len(c_extensions) : c_extensions[i].kind = "panic"
        THEN [kind |-> "panic", version |-> Zero32, text |-> <<>>,
              validation_layers |-> <<>>, vulkan_extensions |-> None]
        ELSE [kind |-> "config", version |-> app.version, text |-> c_name.text,
              validation_layers |-> [i \in 1..Len(c_layers) |-> c_layers[i].text],
              vulkan_extensions |->
                  IF self.vulkan_extensions.some
                  THEN Some([i \in 1..Len(c_extensions) |-> c_extensions[i].text])
                  ELSE None]

InitConfig ==
    /\ LifeIdle
    /\ QueueIdle
    /\ DevIdle
    /\ ExtraIdle
    /\ application_name \in Names
    /\ version_str \in VersionStrings
    /\ config_result = NoConfig

ToVersion ==
    /\ config_result.op = "none"
    /\ config_result' = [op |-> "to_version",
                         kind |-> to_version(version_str).kind,
                         version |-> to_version(version_str).version,
                         text |-> <<>>]
    /\ UNCHANGED <<application_name, version_str>>
    /\ UNCHANGED restOfCfg

ToCStr ==
    /\ config_result.op = "none"
    /\ config_result' = [op |-> "to_c_str",
                         kind |-> to_c_str(application_name).kind,
                         version |-> Zero32,
                         text |-> to_c_str(application_name).text]
    /\ UNCHANGED <<application_name, version_str>>
    /\ UNCHANGED restOfCfg

Build ==
    /\ config_result.op = "none"
    /\ \E layers \in SeqsUpTo(Names, 1), engine_name \in Names :
       \E vulkan_api_version \in OtherVersions, engine_version \in OtherVersions :
          LET config == build([validation_layers |-> Some(layers), vulkan_extensions |-> None],
                              application_name, engine_name,
                              vulkan_api_version, version_str, engine_version)
          IN  config_result' = [op |-> "build",
                                kind |-> config.kind,
                                version |-> config.version,
                                text |-> config.text]
    /\ UNCHANGED <<application_name, version_str>>
    /\ UNCHANGED restOfCfg

NextConfig ==
    \/ ToVersion
    \/ ToCStr
    \/ Build

SpecConfig == InitConfig /\ [][NextConfig]_vars

(***************************************************************************)
(* Properties of configuration building (SpecConfig)                       *)
(***************************************************************************)
\* C18: for every string "major.minor.patch" whose components fit the packed
\* bit-widths (major < 128, minor < 1024, patch < 4096), to_version returns
\* (major << 22) | (minor << 12) | patch with variant 0, the same 32-bit value
\* as packing the three integers directly.
C18_ToVersionPacksComponents ==
    config_result.op = "to_version" =>
        \A major, minor, patch \in NumericComponents :
            (/\ major.value < 128
             /\ minor.value < 1024
             /\ patch.value < 4096
             /\ version_str = Join(<<major.text, minor.text, patch.text>>))
            => /\ config_result.kind = "version"
               /\ config_result.version =
                      FromNat(major.value * 4194304 + minor.value * 4096 + patch.value)

C18_Witness ==
    /\ config_result.op = "to_version"
    /\ version_str = <<"1", "2", "7", ".", "1", "0", "2", "3", ".", "4", "0", "9", "5">>
    /\ config_result.kind = "version"

\* A version string with fewer than three components or a component that is
\* not a decimal number.
MalformedVersion(version) ==
    LET parts == split(version)
    IN  \/ Len(parts) < 3
        \/ \E i \in 1..Len(parts) : parts[i] \notin {e.text : e \in NumericComponents}

\* C19: configuration errors reach the caller of configuration building as a
\* typed result: a version string with fewer than three components or a
\* non-numeric component yields ParseError, a name with an embedded zero byte
\* yields EncodingError.
C19_ConfigErrorsAreTypedResults ==
    /\ (config_result.op = "to_version" /\ MalformedVersion(version_str))
            => config_result.kind = "ParseError"
    /\ (config_result.op = "to_c_str" /\ "NUL" \in Range(application_name))
            => config_result.kind = "EncodingError"
    /\ (config_result.op = "build"
            /\ (MalformedVersion(version_str) \/ "NUL" \in Range(application_name)))
            => config_result.kind \in {"ParseError", "EncodingError"}

(***************************************************************************)
(* Properties of surface creation (Spec)                                   *)
(***************************************************************************)
\* A Wayland, Xcb or Xlib window handle with a display handle of another
\* kind, or a window handle outside Win32/Wayland/Xcb/Xlib.
Mismatched(window, display) ==
    \/ window.kind \in {"Wayland", "Xcb", "Xlib"} /\ display.kind # window.kind
    \/ window.kind \notin {"Win32", "Wayland", "Xcb", "Xlib"}

SurfaceCreationCalls == {"create_surface", "create_surface_failed"}

\* C20: surface creation with a Wayland, XCB or Xlib window handle paired
\* with a display handle of a different kind, or with a window handle kind
\* outside Win32/Wayland/XCB/Xlib, ends in the fatal outcome and calls no
\* platform surface-creation entry point, so no surface exists afterwards.
C20_MismatchedHandlesAreFatal ==
    [][(pc \in {"surface_new", "configured"}
            /\ Mismatched(raw_window_handle, raw_display_handle))
        => /\ pc' = FatalOutcome
           /\ calls' = calls
           /\ Range(calls') \cap SurfaceCreationCalls = {}]_vars

C20_Witness ==
    /\ pc = FatalOutcome
    /\ raw_window_handle.kind = "Xcb"
    /\ raw_display_handle.kind = "Wayland"
    /\ raw_display_handle.field
    /\ Range(calls) \cap SurfaceCreationCalls = {}

(***************************************************************************)
(* debug_callback (base.rs) (SpecCallback).  A flags value is the set of   *)
(* its bits; "OTHER" is a bit without a name in the match.                 *)
(***************************************************************************)
SeverityBits == {"VERBOSE", "INFO", "WARNING", "ERROR", "OTHER"}

TypeBits == {"GENERAL", "VALIDATION", "PERFORMANCE", "DEVICE_ADDRESS_BINDING", "OTHER"}

\* The flag values offered: no bit, one bit, two bits combined.
SeverityFlags == {f \in SUBSET SeverityBits : Cardinality(f) <= 2}

TypeFlags == {f \in SUBSET TypeBits : Cardinality(f) <= 2}

\* vk::FALSE.
VK_FALSE == "VK_FALSE"

\* The first match of debug_callback: the tag of the message type.
MessageTypeTag(type) ==
    CASE type = {"GENERAL"} -> "[GENERAL]"
      [] type = {"PERFORMANCE"} -> "[PERFORMANCE]"
      [] type = {"VALIDATION"} -> "[VALIDATION]"
      [] type = {"DEVICE_ADDRESS_BINDING"} -> "[DEVICE_ADDRESS_BINDING]"
      [] OTHER -> "UNKNOWN"

debug_callback_AnyErrorBit(severity, type) ==
    LET tag == MessageTypeTag(type)
        record == CASE "ERROR" \in severity -> [level |-> "error", tag |-> tag, bracketed |-> FALSE]
                    [] severity = {"WARNING"} -> [level |-> "warn", tag |-> tag, bracketed |-> FALSE]
                    [] severity = {"INFO"} -> [level |-> "info", tag |-> tag, bracketed |-> FALSE]
                    [] severity = {"VERBOSE"} -> [level |-> "trace", tag |-> tag, bracketed |-> FALSE]
                    [] OTHER -> [level |-> "trace", tag |-> tag, bracketed |-> TRUE]
    IN  [records |-> <<record>>, result |-> VK_FALSE]

\* debug_callback: the records it hands to the log macros and the value it
\* returns.  The last arm wraps the tag in brackets.
debug_callback(severity, type) ==
    LET tag == MessageTypeTag(type)
        record == CASE severity = {"ERROR"} -> [level |-> "error", tag |-> tag, bracketed |-> FALSE]
                    [] severity = {"WARNING"} -> [level |-> "warn", tag |-> tag, bracketed |-> FALSE]
                    [] severity = {"INFO"} -> [level |-> "info", tag |-> tag, bracketed |-> FALSE]
                    [] severity = {"VERBOSE"} -> [level |-> "trace", tag |-> tag, bracketed |-> FALSE]
                    [] OTHER -> [level |-> "trace", tag |-> tag, bracketed |-> TRUE]
    IN  [records |-> <<record>>, result |-> VK_FALSE]

InitCallback ==
    /\ LifeIdle
    /\ QueueIdle
    /\ DevIdle
    /\ CfgIdle
    /\ CallbackIdle
    /\ BuilderIdle
    /\ RendererIdle
    /\ LoggerIdle

\* The driver calls the callback with a valid callback-data pointer.
DebugCallback ==
    /\ Len(callback_return) < MaxMessages
    /\ \E severity \in SeverityFlags, type \in TypeFlags :
        /\ message_severity' = severity
        /\ message_type' = type
        /\ log_records' = log_records \o debug_callback(severity, type).records
        /\ callback_return' = Append(callback_return, debug_callback(severity, type).result)
    /\ UNCHANGED restOfCallback

NextCallback ==
    \/ DebugCallback

SpecCallback == InitCallback /\ [][NextCallback]_vars

\* The log level the severity asks for.
LevelOf(severity) ==
    IF severity = {"ERROR"} THEN "error"
    ELSE IF severity = {"WARNING"} THEN "warn"
    ELSE IF severity = {"INFO"} THEN "info"
    ELSE "trace"

\* C21: for every combination of message severity and message category,
\* unknown and combined flag values included, the debug callback emits
\* exactly one log record, at the level matching the severity (ERROR ->
\* error, WARNING -> warn, INFO -> info, VERBOSE or unknown -> trace), and
\* returns the "do not abort" value.
C21_OneRecordPerMessage ==
    /\ Len(log_records) = Len(callback_return)
    /\ \A i \in 1..Len(callback_return) : callback_return[i] = VK_FALSE
    /\ Len(log_records) > 0 =>
            log_records[Len(log_records)].level = LevelOf(message_severity)

C21_Witness ==
    /\ Len(callback_return) = 2
    /\ message_severity = {"ERROR", "WARNING"}
    /\ message_type = {"OTHER"}
    /\ log_records[2].level = "trace"
    /\ log_records[1].level = "error"

(***************************************************************************)
(* BaseConfigBuilder and the lists Base::new enables (SpecBuilder).  A     *)
(* name is a sequence of text pieces; "NUL" is the zero byte.              *)
(***************************************************************************)
LayerNames == {<<"VK_LAYER_KHRONOS_validation">>,
               <<"VK_LAYER_KHRONOS_synchronization2">>,
               <<"VK_LAYER", "NUL", "bad">>}

InstanceExtensionNames == {<<"VK_KHR_surface">>, <<"VK_KHR_display">>}

\* core_vulkan_extensions(): surface, the platform's surface extension,
\* debug-utils, as C strings.
core_vulkan_extensions ==
    <<<<"VK_KHR_surface", "NUL">>, <<"platform_surface_extension", "NUL">>,
      <<"VK_EXT_debug_utils", "NUL">>>>

BuilderValidationLayers ==
    /\ base_config.kind = "none"
    /\ \E layers \in SeqsUpTo(LayerNames, MaxSupplied) :
        builder' = [builder EXCEPT !.validation_layers = Some(layers)]
    /\ UNCHANGED <<base_config, instance_info>>
    /\ UNCHANGED restOfBuilder

BuilderUseKhronosValidation ==
    /\ base_config.kind = "none"
    /\ builder' = [builder EXCEPT !.validation_layers = Some(<<<<"VK_LAYER_KHRONOS_validation">>>>)]
    /\ UNCHANGED <<base_config, instance_info>>
    /\ UNCHANGED restOfBuilder

\* use_core_vulkan_extensions returns the builder as it is.
BuilderUseCoreVulkanExtensions ==
    /\ base_config.kind = "none"
    /\ builder' = builder
    /\ UNCHANGED <<base_config, instance_info>>
    /\ UNCHANGED restOfBuilder

BuilderVulkanExtensions ==
    /\ base_config.kind = "none"
    /\ \E extensions \in SeqsUpTo(InstanceExtensionNames, MaxSupplied) :
        builder' = [builder EXCEPT !.vulkan_extensions = Some(extensions)]
    /\ UNCHANGED <<base_config, instance_info>>
    /\ UNCHANGED restOfBuilder

BuilderBuild ==
    /\ base_config.kind = "none"
    /\ \E name \in Names, version \in OtherVersions :
        base_config' = build(builder, name, name, version, version, version)
    /\ UNCHANGED <<builder, instance_info>>
    /\ UNCHANGED restOfBuilder

InstanceCreateInfo_DefaultsAppended(config) ==
    [valid |-> TRUE,
     layers |-> config.validation_layers,
     extensions |-> IF config.vulkan_extensions.some
                    THEN config.vulkan_extensions.value \o core_vulkan_extensions
                    ELSE core_vulkan_extensions]

\* The layer and extension lists Base::new puts in the InstanceCreateInfo.
InstanceCreateInfo(config) ==
    [valid |-> TRUE,
     layers |-> config.validation_layers,
     extensions |-> IF config.vulkan_extensions.some
                    THEN config.vulkan_extensions.value
                    ELSE core_vulkan_extensions]

BaseNew_InstanceCreateInfo ==
    /\ base_config.kind = "config"
    /\ ~instance_info.valid
    /\ instance_info' = InstanceCreateInfo(base_config)
    /\ UNCHANGED <<builder, base_config>>
    /\ UNCHANGED restOfBuilder

InitBuilder ==
    /\ LifeIdle
    /\ QueueIdle
    /\ DevIdle
    /\ CfgIdle
    /\ CallbackIdle
    /\ BuilderIdle
    /\ RendererIdle
    /\ LoggerIdle

NextBuilder ==
    \/ BuilderValidationLayers
    \/ BuilderUseKhronosValidation
    \/ BuilderUseCoreVulkanExtensions
    \/ BuilderVulkanExtensions
    \/ BuilderBuild
    \/ BaseNew_InstanceCreateInfo

SpecBuilder == InitBuilder /\ [][NextBuilder]_vars

\* The C string of a name without a zero byte.
CStringOf(name) == name \o <<"NUL">>

\* The layers the builder was asked for (none asked: the empty list).
RequestedLayers == IF builder.validation_layers.some THEN builder.validation_layers.value ELSE <<>>

\* C22: build keeps the requested validation layers in the order and number
\* given (an empty list when none were requested); when no instance-extension
\* list was supplied the built config carries none and Base::new enables
\* exactly the default set (surface, platform surface, debug-utils); when a
\* list was supplied, exactly that list is enabled.
C22_BuildKeepsLayersAndExtensions ==
    /\ base_config.kind = "config" =>
            /\ Len(base_config.validation_layers) = Len(RequestedLayers)
            /\ \A i \in 1..Len(RequestedLayers) :
                    base_config.validation_layers[i] = CStringOf(RequestedLayers[i])
            /\ base_config.vulkan_extensions.some = builder.vulkan_extensions.some
    /\ instance_info.valid =>
            /\ instance_info.layers = base_config.validation_layers
            /\ ~builder.vulkan_extensions.some =>
                    /\ Len(instance_info.extensions) = 3
                    /\ Range(instance_info.extensions) =
                            {CStringOf(<<"VK_KHR_surface">>),
                             CStringOf(<<"platform_surface_extension">>),
                             CStringOf(<<"VK_EXT_debug_utils">>)}
            /\ builder.vulkan_extensions.some =>
                    /\ Len(instance_info.extensions) = Len(builder.vulkan_extensions.value)
                    /\ \A i \in 1..Len(instance_info.extensions) :
                            instance_info.extensions[i] = CStringOf(builder.vulkan_extensions.value[i])

C22_Witness ==
    /\ instance_info.valid
    /\ builder.vulkan_extensions.some
    /\ Len(builder.vulkan_extensions.value) = 2
    /\ Len(RequestedLayers) = 2
    /\ RequestedLayers[1] # RequestedLayers[2]

(***************************************************************************)
(* Invariant of QueueSelections (SpecQueue)                                *)
(***************************************************************************)
\* The operations currently assigned to family f.
OperationsOf(f) == {o \in DOMAIN operations : operations[o].some /\ operations[o].index = f}

\* C23: after any sequence of insert_operation calls on a fresh
\* QueueSelections, every allocated family has count >= 1, a priority list of
\* exactly count entries and a count equal to the number of operations
\* assigned to it; every assigned operation's offset is smaller than its
\* family's count; a family with no assigned operation has no allocation.
C23_FamilyCountsMatchAssignments ==
    /\ \A f \in DOMAIN families :
        /\ families[f].some =>
                /\ families[f].count >= 1
                /\ Len(families[f].priorities) = families[f].count
                /\ families[f].count = Cardinality(OperationsOf(f))
        /\ OperationsOf(f) = {} => ~families[f].some
    /\ \A o \in DOMAIN operations :
        operations[o].some =>
            /\ operations[o].index \in DOMAIN families
            /\ families[operations[o].index].some
            /\ operations[o].offset < families[operations[o].index].count

C23_Witness ==
    /\ Cardinality(DOMAIN families) >= 2
    /\ families[0].some
    /\ families[0].count = 3
    /\ families[1].some
    /\ families[1].count = 1
    /\ insert_result = "ok"

(***************************************************************************)
(* The renderer of main.rs: Vulkan::new from the selected physical device  *)
(* on, draw_frame, Drop for Vulkan; get_queue_families of utils.rs         *)
(* (SpecRenderer)                                                          *)
(***************************************************************************)
\* What the device reports for one queue family: the GRAPHICS flag and the
\* answer of get_physical_device_surface_support ("error": the query fails).
FamilyProperties == [graphics : BOOLEAN, support : {"yes", "no", "error"}]

get_queue_families_done(graphics_family, surface_family) ==
    IF ~graphics_family.some \/ ~surface_family.some
    THEN [kind |-> "panic", indices |-> QueueFamilyIndices_new]
    ELSE [kind |-> "ok",
          indices |-> [graphics_family |-> graphics_family, surface_family |-> surface_family]]

\* The loop of get_queue_families from family index on: it stops when both
\* families are set and after the first family that can present.
RECURSIVE get_queue_families_loop(_, _, _, _)
get_queue_families_loop(fams, index, graphics_family, surface_family) ==
    IF index \notin DOMAIN fams \/ (graphics_family.some /\ surface_family.some)
    THEN get_queue_families_done(graphics_family, surface_family)
    ELSE LET graphics == IF fams[index].graphics /\ ~graphics_family.some
                         THEN Some(index)
                         ELSE graphics_family
         IN  IF fams[index].support = "error"
             THEN [kind |-> "panic", indices |-> QueueFamilyIndices_new]
             ELSE IF fams[index].support = "yes"
             THEN get_queue_families_done(graphics,
                        IF ~surface_family.some THEN Some(index) ELSE surface_family)
             ELSE get_queue_families_loop(fams, index + 1, graphics, surface_family)

get_queue_families(fams) == get_queue_families_loop(fams, 0, None, None)

InitRenderer ==
    /\ LifeIdle
    /\ QueueIdle
    /\ DevIdle
    /\ CfgIdle
    /\ CallbackIdle
    /\ BuilderIdle
    /\ LoggerIdle
    /\ vk_pc = "device_picked"
    /\ \E n \in 0..MaxQueueFamilies : device_queue_families \in [0..(n - 1) -> FamilyProperties]
    /\ queue_family_indices = QueueFamilyIndices_new
    /\ queue = None
    /\ image_count = 0
    /\ frame_calls = <<>>
    /\ drop_calls = <<>>
    /\ fence_signalled = FALSE
    /\ gpu_pending = FALSE
    /\ frames = 0

VulkanNew_GetQueueFamilies ==
    /\ vk_pc = "device_picked"
    /\ LET r == get_queue_families(device_queue_families)
       IN  IF r.kind = "ok" /\ r.indices.graphics_family.some
           THEN /\ queue_family_indices' = r.indices
                /\ vk_pc' = "families_selected"
           ELSE /\ vk_pc' = "new_panicked"
                /\ UNCHANGED queue_family_indices
    /\ UNCHANGED <<device_queue_families, queue, image_count, frame_calls, drop_calls,
                   fence_signalled, gpu_pending, frames>>
    /\ UNCHANGED restOfRenderer

\* create_logical_device, then get_device_queue(graphics_family, 0).
VulkanNew_CreateLogicalDevice ==
    /\ vk_pc = "families_selected"
    /\ \E ok \in BOOLEAN :
        IF ok
        THEN /\ queue' = [some |-> TRUE, family |-> queue_family_indices.graphics_family.value,
                          index |-> 0]
             /\ vk_pc' = "device_created"
        ELSE /\ vk_pc' = "new_panicked"
             /\ UNCHANGED queue
    /\ UNCHANGED <<device_queue_families, queue_family_indices, image_count, frame_calls,
                   drop_calls, fence_signalled, gpu_pending, frames>>
    /\ UNCHANGED restOfRenderer

\* The states in which create_sync_objects can hand over the fence: signalled
\* or not.
create_sync_objects_fence == BOOLEAN

\* The rest of Vulkan::new: swapchain, image views, pipeline, framebuffers,
\* command pool and buffer, sync objects.
VulkanNew_CreateObjects ==
    /\ vk_pc = "device_created"
    /\ \E ok \in BOOLEAN :
        IF ok
        THEN /\ \E n \in 1..MaxImages : image_count' = n
             /\ \E signalled \in create_sync_objects_fence : fence_signalled' = signalled
             /\ vk_pc' = "ready"
        ELSE /\ vk_pc' = "new_panicked"
             /\ UNCHANGED <<image_count, fence_signalled>>
    /\ UNCHANGED <<device_queue_families, queue_family_indices, queue, frame_calls,
                   drop_calls, gpu_pending, frames>>
    /\ UNCHANGED restOfRenderer

\* One native call of draw_frame: the objects it waits on and signals.
FrameCall(call, waits, signals) == [call |-> call, waits |-> waits, signals |-> signals]

\* A step of draw_frame from position from to position to making the call c;
\* every call can fail, and the expect on its result then panics.
FrameStep(from, to, c) ==
    /\ vk_pc = from
    /\ frame_calls' = Append(frame_calls, c)
    /\ \E ok \in BOOLEAN : vk_pc' = IF ok THEN to ELSE "frame_panicked"
    /\ UNCHANGED <<device_queue_families, queue_family_indices, queue, image_count, drop_calls>>
    /\ UNCHANGED restOfRenderer

DrawFrame_WaitForFences_NoWait ==
    /\ vk_pc = "ready"
    /\ frames < MaxFrames
    /\ frame_calls' = <<FrameCall("wait_for_fences", {"fence"}, {})>>
    /\ \E ok \in BOOLEAN : vk_pc' = IF ok THEN "waited" ELSE "frame_panicked"
    /\ UNCHANGED <<device_queue_families, queue_family_indices, queue, image_count, drop_calls,
                   fence_signalled, gpu_pending, frames>>
    /\ UNCHANGED restOfRenderer

\* wait_for_fences with timeout u64::MAX returns success only once the fence
\* is signalled.
DrawFrame_WaitForFences ==
    /\ vk_pc = "ready"
    /\ frames < MaxFrames
    /\ frame_calls' = <<FrameCall("wait_for_fences", {"fence"}, {})>>
    /\ \E ok \in BOOLEAN :
        /\ ok => fence_signalled
        /\ vk_pc' = IF ok THEN "waited" ELSE "frame_panicked"
    /\ UNCHANGED <<device_queue_families, queue_family_indices, queue, image_count, drop_calls,
                   fence_signalled, gpu_pending, frames>>
    /\ UNCHANGED restOfRenderer

DrawFrame_ResetFences ==
    /\ FrameStep("waited", "fence_reset", FrameCall("reset_fences", {}, {}))
    /\ fence_signalled' = IF vk_pc' = "fence_reset" THEN FALSE ELSE fence_signalled
    /\ UNCHANGED <<gpu_pending, frames>>

DrawFrame_AcquireNextImage ==
    /\ FrameStep("fence_reset", "acquired",
                 FrameCall("acquire_next_image", {}, {"image_available_semaphore"}))
    /\ UNCHANGED <<fence_signalled, gpu_pending, frames>>

DrawFrame_ResetCommandBuffer ==
    /\ FrameStep("acquired", "cmd_reset", FrameCall("reset_command_buffer", {}, {}))
    /\ UNCHANGED <<fence_signalled, gpu_pending, frames>>

DrawFrame_RecordCommandBuffer ==
    /\ FrameStep("cmd_reset", "recorded", FrameCall("record_command_buffer", {}, {}))
    /\ UNCHANGED <<fence_signalled, gpu_pending, frames>>

DrawFrame_QueueSubmit ==
    /\ FrameStep("recorded", "submitted",
                 FrameCall("queue_submit", {"image_available_semaphore"},
                           {"render_finished_semaphore", "fence"}))
    /\ gpu_pending' = IF vk_pc' = "submitted" THEN TRUE ELSE gpu_pending
    /\ UNCHANGED <<fence_signalled, frames>>

DrawFrame_QueuePresent ==
    /\ FrameStep("submitted", "ready",
                 FrameCall("queue_present", {"render_finished_semaphore"}, {}))
    /\ frames' = IF vk_pc' = "ready" THEN frames + 1 ELSE frames
    /\ UNCHANGED <<fence_signalled, gpu_pending>>

\* The device finishes the submitted command buffer and signals the fence.
GpuComplete ==
    /\ gpu_pending
    /\ gpu_pending' = FALSE
    /\ fence_signalled' = TRUE
    /\ UNCHANGED <<vk_pc, device_queue_families, queue_family_indices, queue, image_count,
                   frame_calls, drop_calls, frames>>
    /\ UNCHANGED restOfRenderer

\* A destroy call of Drop for Vulkan and the handle it is given.
Destroy(call, handle, index) == [call |-> call, handle |-> handle, index |-> index]

\* Drop for Vulkan with image_count framebuffers and image views and the
\* shader map iterated in the order shader_order.
VulkanDropCalls_DeviceEarly(n, shader_order) ==
    <<Destroy("destroy_debug_utils_messenger", "debug_utils_messenger", 0),
      Destroy("destroy_swapchain", "swapchain", 0),
      Destroy("destroy_surface", "surface", 0),
      Destroy("destroy_semaphore", "image_available_semaphore", 0),
      Destroy("destroy_semaphore", "render_finished_semaphore", 0),
      Destroy("destroy_fence", "fence", 0),
      Destroy("destroy_command_pool", "command_pool", 0)>>
    \o [i \in 1..n |-> Destroy("destroy_framebuffer", "frame_buffers", i - 1)]
    \o <<Destroy("destroy_pipeline", "pipeline", 0),
         Destroy("destroy_pipeline_layout", "pipeline_layout", 0),
         Destroy("destroy_render_pass", "render_pass", 0)>>
    \o [i \in 1..Len(shader_order) |-> Destroy("destroy_shader_module", shader_order[i], 0)]
    \o <<Destroy("destroy_device", "logical_device", 0)>>
    \o [i \in 1..n |-> Destroy("destroy_image_view", "image_views", i - 1)]
    \o <<Destroy("destroy_instance", "vk_instance", 0)>>

VulkanDropCalls(n, shader_order) ==
    <<Destroy("destroy_debug_utils_messenger", "debug_utils_messenger", 0),
      Destroy("destroy_swapchain", "swapchain", 0),
      Destroy("destroy_surface", "surface", 0),
      Destroy("destroy_semaphore", "image_available_semaphore", 0),
      Destroy("destroy_semaphore", "render_finished_semaphore", 0),
      Destroy("destroy_fence", "fence", 0),
      Destroy("destroy_command_pool", "command_pool", 0)>>
    \o [i \in 1..n |-> Destroy("destroy_framebuffer", "frame_buffers", i - 1)]
    \o <<Destroy("destroy_pipeline", "pipeline", 0),
         Destroy("destroy_pipeline_layout", "pipeline_layout", 0),
         Destroy("destroy_render_pass", "render_pass", 0)>>
    \o [i \in 1..Len(shader_order) |-> Destroy("destroy_shader_module", shader_order[i], 0)]
    \o [i \in 1..n |-> Destroy("destroy_image_view", "image_views", i - 1)]
    \o <<Destroy("destroy_device", "logical_device", 0),
         Destroy("destroy_instance", "vk_instance", 0)>>

\* The orders in which the two entries of the shader map can be visited.
ShaderOrders == {<<"fshader", "vshader">>, <<"vshader", "fshader">>}

\* The Vulkan object is dropped when the application ends or a panic of
\* draw_frame unwinds through its owner.
DropVulkan ==
    /\ vk_pc \in {"ready", "frame_panicked"}
    /\ \E shader_order \in ShaderOrders : drop_calls' = VulkanDropCalls(image_count, shader_order)
    /\ vk_pc' = "dropped"
    /\ UNCHANGED <<device_queue_families, queue_family_indices, queue, image_count,
                   frame_calls, fence_signalled, gpu_pending, frames>>
    /\ UNCHANGED restOfRenderer

NextRenderer ==
    \/ VulkanNew_GetQueueFamilies
    \/ VulkanNew_CreateLogicalDevice
    \/ VulkanNew_CreateObjects
    \/ DrawFrame_WaitForFences
    \/ DrawFrame_ResetFences
    \/ DrawFrame_AcquireNextImage
    \/ DrawFrame_ResetCommandBuffer
    \/ DrawFrame_RecordCommandBuffer
    \/ DrawFrame_QueueSubmit
    \/ DrawFrame_QueuePresent
    \/ GpuComplete
    \/ DropVulkan

SpecRenderer == InitRenderer /\ [][NextRenderer]_vars

(***************************************************************************)
(* Properties of the renderer (SpecRenderer)                               *)
(***************************************************************************)
GraphicsCapable == {i \in DOMAIN device_queue_families : device_queue_families[i].graphics}

PresentCapable == {i \in DOMAIN device_queue_families : device_queue_families[i].support = "yes"}

\* The least member of a non-empty set of numbers.
Lowest(S) == CHOOSE i \in S : \A j \in S : i <= j

\* get_queue_families has returned or panicked.
QueueFamiliesDone == vk_pc \notin {"idle", "device_picked"}

\* C24: whenever the device has a graphics-capable queue family and a family
\* that can present to the surface, get_queue_families returns with graphics
\* assigned to the lowest-index graphics-capable family and present assigned
\* to the lowest-index present-capable family, whatever the order of the
\* families; it fails only when one of the two kinds does not exist.
C24_LowestEligibleFamilies ==
    (/\ QueueFamiliesDone
     /\ \A i \in DOMAIN device_queue_families : device_queue_families[i].support # "error"
     /\ GraphicsCapable # {}
     /\ PresentCapable # {})
    => /\ queue_family_indices.graphics_family = Some(Lowest(GraphicsCapable))
       /\ queue_family_indices.surface_family = Some(Lowest(PresentCapable))

\* C30: the queue on which the renderer presents images belongs to a queue
\* family that supports presentation to the surface, also when
\* get_queue_families selected different families for graphics and present.
C30_PresentQueueCanPresent ==
    (\E i \in 1..Len(frame_calls) : frame_calls[i].call = "queue_present")
        => /\ queue.some
           /\ queue.family \in PresentCapable

\* The handles created from the logical device that a Vulkan object with n
\* swapchain images owns, as (field, index).
DeviceChildren(n) ==
    {<<h, 0>> : h \in {"swapchain", "image_available_semaphore", "render_finished_semaphore",
                       "fence", "command_pool", "pipeline", "pipeline_layout", "render_pass",
                       "fshader", "vshader"}}
    \cup {<<h, i>> : h \in {"frame_buffers", "image_views"}, i \in 0..(n - 1)}

\* Every handle the Vulkan object owns.
OwnedHandles(n) ==
    DeviceChildren(n)
    \cup {<<h, 0>> : h \in {"debug_utils_messenger", "surface", "logical_device", "vk_instance"}}

\* The positions in drop_calls at which the handle is destroyed.
DestroyedAt(handle) ==
    {i \in 1..Len(drop_calls) : <<drop_calls[i].handle, drop_calls[i].index>> = handle}

\* C28: when the Vulkan object of main.rs is dropped, every object created
\* from the logical device is destroyed before the logical device, the
\* swapchain before the surface, the instance last, and every handle exactly
\* once.
C28_VulkanDropOrder ==
    vk_pc = "dropped" =>
        /\ \A h \in OwnedHandles(image_count) : Cardinality(DestroyedAt(h)) = 1
        /\ Len(drop_calls) = Cardinality(OwnedHandles(image_count))
        /\ \A h \in DeviceChildren(image_count) :
                \A i \in DestroyedAt(h), j \in DestroyedAt(<<"logical_device", 0>>) : i < j
        /\ \A i \in DestroyedAt(<<"swapchain", 0>>), j \in DestroyedAt(<<"surface", 0>>) : i < j
        /\ drop_calls[Len(drop_calls)].call = "destroy_instance"
        /\ drop_calls[Len(drop_calls)].handle = "vk_instance"

C28_Witness ==
    /\ vk_pc = "dropped"
    /\ image_count = 2
    /\ frames = 1
    /\ Len(drop_calls) = 18

\* The calls of one draw_frame, in order.
DrawFrameOrder ==
    <<FrameCall("wait_for_fences", {"fence"}, {}),
      FrameCall("reset_fences", {}, {}),
      FrameCall("acquire_next_image", {}, {"image_available_semaphore"}),
      FrameCall("reset_command_buffer", {}, {}),
      FrameCall("record_command_buffer", {}, {}),
      FrameCall("queue_submit", {"image_available_semaphore"},
                {"render_finished_semaphore", "fence"}),
      FrameCall("queue_present", {"render_finished_semaphore"}, {})>>

\* C29: in every call of draw_frame the steps happen in the order wait for
\* the fence, reset the fence, acquire the next image (signalling
\* image-available), reset and re-record the command buffer, submit (waiting
\* on image-available, signalling render-finished and the fence), present
\* (waiting on render-finished); hence the command buffer is never reset or
\* re-recorded while a previous submission of it has not signalled the fence.
C29_DrawFrameOrder ==
    /\ Len(frame_calls) <= Len(DrawFrameOrder)
    /\ \A i \in 1..Len(frame_calls) : frame_calls[i] = DrawFrameOrder[i]
    /\ vk_pc = "waited" => Len(frame_calls) = 1
    /\ vk_pc = "fence_reset" => Len(frame_calls) = 2
    /\ vk_pc = "acquired" => Len(frame_calls) = 3
    /\ vk_pc = "cmd_reset" => Len(frame_calls) = 4
    /\ vk_pc = "recorded" => Len(frame_calls) = 5
    /\ vk_pc = "submitted" => Len(frame_calls) = 6
    /\ (vk_pc = "ready" /\ frames > 0) => Len(frame_calls) = 7
    /\ Len(frame_calls) \in {4, 5} => ~gpu_pending

C29_Witness ==
    /\ vk_pc = "recorded"
    /\ frames = 1
    /\ fence_signalled = FALSE
    /\ gpu_pending = FALSE

(***************************************************************************)
(* Logger::init (log.rs) called by several threads (SpecLogger)            *)
(***************************************************************************)
LevelFilters == {"Error", "Info", "Trace"}

InitLogger ==
    /\ LifeIdle
    /\ QueueIdle
    /\ DevIdle
    /\ CfgIdle
    /\ CallbackIdle
    /\ BuilderIdle
    /\ RendererIdle
    /\ LoggerIdle

\* Thread t calls Logger::init(logging_level).
LoggerInit_Call(t) ==
    /\ thread_pc[t] = "idle"
    /\ init_calls < MaxInitCalls
    /\ init_calls' = init_calls + 1
    /\ \E logging_level \in LevelFilters : thread_level' = [thread_level EXCEPT ![t] = logging_level]
    /\ thread_pc' = [thread_pc EXCEPT ![t] = "call_once"]
    /\ UNCHANGED <<once_state, logger, max_level, installs, init_level>>
    /\ UNCHANGED restOfLogger

CallOnce_Enter_NoCompleteCheck(t) ==
    /\ thread_pc[t] = "call_once"
    /\ once_state # "running"
    /\ IF once_state = "poisoned"
       THEN /\ thread_pc' = [thread_pc EXCEPT ![t] = "panicked"]
            /\ UNCHANGED <<once_state, init_level>>
       ELSE /\ once_state' = "running"
            /\ init_level' = thread_level[t]
            /\ thread_pc' = [thread_pc EXCEPT ![t] = "set_logger"]
    /\ UNCHANGED <<logger, max_level, thread_level, installs, init_calls>>
    /\ UNCHANGED restOfLogger

\* INIT.call_once: returns at once when the initialisation completed, runs
\* the closure when it has not started, waits while another thread runs it,
\* panics when an earlier run of the closure panicked.
CallOnce_Enter(t) ==
    /\ thread_pc[t] = "call_once"
    /\ once_state # "running"
    /\ CASE once_state = "complete" ->
                /\ thread_pc' = [thread_pc EXCEPT ![t] = "idle"]
                /\ UNCHANGED <<once_state, init_level>>
         [] once_state = "poisoned" ->
                /\ thread_pc' = [thread_pc EXCEPT ![t] = "panicked"]
                /\ UNCHANGED <<once_state, init_level>>
         [] OTHER ->
                /\ once_state' = "running"
                /\ init_level' = thread_level[t]
                /\ thread_pc' = [thread_pc EXCEPT ![t] = "set_logger"]
    /\ UNCHANGED <<logger, max_level, thread_level, installs, init_calls>>
    /\ UNCHANGED restOfLogger

\* log::set_logger(&LOGGER).expect(..): an error (a logger is installed
\* already) panics inside the closure, which poisons INIT.
Closure_SetLogger(t) ==
    /\ thread_pc[t] = "set_logger"
    /\ IF logger = "none"
       THEN /\ logger' = "LOGGER"
            /\ installs' = installs + 1
            /\ thread_pc' = [thread_pc EXCEPT ![t] = "set_max_level"]
            /\ UNCHANGED once_state
       ELSE /\ once_state' = "poisoned"
            /\ thread_pc' = [thread_pc EXCEPT ![t] = "panicked"]
            /\ UNCHANGED <<logger, installs>>
    /\ UNCHANGED <<max_level, thread_level, init_level, init_calls>>
    /\ UNCHANGED restOfLogger

\* log::set_max_level(logging_level), then the closure returns.
Closure_SetMaxLevel(t) ==
    /\ thread_pc[t] = "set_max_level"
    /\ max_level' = thread_level[t]
    /\ once_state' = "complete"
    /\ thread_pc' = [thread_pc EXCEPT ![t] = "idle"]
    /\ UNCHANGED <<logger, thread_level, installs, init_level, init_calls>>
    /\ UNCHANGED restOfLogger

NextLogger ==
    \E t \in Threads :
        \/ LoggerInit_Call(t)
        \/ CallOnce_Enter(t)
        \/ Closure_SetLogger(t)
        \/ Closure_SetMaxLevel(t)

SpecLogger == InitLogger /\ [][NextLogger]_vars

ContextStepCalls ==
    <<{"create_surface", "create_surface_failed"},
      {"enumerate_physical_devices"},
      {"get_physical_device_queue_family_properties"},
      {"create_device", "create_device_failed"}>>

FailedCalls == {"create_surface_failed", "create_device_failed"}

\* The calls of the steps of Context::new in the order they were made.
ContextSteps ==
    LET IsStep(c) == \E k \in DOMAIN ContextStepCalls : c \in ContextStepCalls[k]
    IN  SelectSeq(calls, IsStep)

\* The states in which construction has failed.
ConstructionFailed == {FatalOutcome, "panicked", "surface_panicked"}

\* C25: Context construction runs surface creation, device enumeration,
\* queue-family discovery and logical-device creation strictly in this
\* order, each at most once and only after the previous one completed; a
\* failed step is followed by no retry and by no later step.
C25_ContextStepsInOrder ==
    /\ [](/\ \A i \in DOMAIN ContextSteps : ContextSteps[i] \in ContextStepCalls[i]
          /\ \A i \in DOMAIN ContextSteps : ContextSteps[i] \in FailedCalls => i = Len(ContextSteps)
          /\ pc = "context_ready" => Len(ContextSteps) = 4)
    /\ [][(pc \in ConstructionFailed) => (pc' = pc /\ calls' = calls)]_vars

C25_Witness ==
    /\ pc = "context_ready"
    /\ ContextSteps = <<"create_surface", "enumerate_physical_devices",
                        "get_physical_device_queue_family_properties", "create_device">>

\* C26: an empty candidate list makes Context construction fail with no
\* queue discovery, no logical device and no Context; with a non-empty list
\* queue discovery and device creation use the first candidate.
C26_FirstCandidateOrFailure ==
    /\ [][(pc = "devices_obtained" /\ physical_devices = <<>>) =>
            /\ pc' \in ConstructionFailed
            /\ "get_physical_device_queue_family_properties" \notin Range(calls')
            /\ "create_device" \notin Range(calls')
            /\ queried_device' = 0
            /\ logical_device' = 0
            /\ context_queues' = NoContextQueues]_vars
    /\ [](pc \in {"queues_obtained", "context_ready"} =>
            /\ physical_devices # <<>>
            /\ queried_device = physical_devices[1])
    /\ [](pc = "context_ready" => logical_device = physical_devices[1])
    /\ [](Count("create_device") > 0 => logical_device # 0 /\ logical_device = queried_device)

C26_Witness ==
    /\ pc = "panicked"
    /\ Count("enumerate_physical_devices") = 1
    /\ Count("get_physical_device_queue_family_properties") = 0
    /\ Count("create_device") = 0
    /\ queried_device = 0
    /\ context_queues = NoContextQueues

====
